---- MODULE Spec2Model ----
(***************************************************************************)
(* A model of the fraud decisioning pipeline: the audit service            *)
(* (audit-svc/main.py), the feature service (feature-svc/main.py), the     *)
(* decision service (decision-svc/main.py), the baseline policy function   *)
(* (decision-svc/app/policy.py), the ingest service (ingest-svc/main.py),  *)
(* the two scorers of score-svc (main.py and the package app) and the      *)
(* Kafka consumer loop the services share.                                 *)
(*                                                                         *)
(* Each of them is a component with its own variables and its own          *)
(* specification (SpecAudit, SpecFeature, SpecDecision, SpecPolicy,        *)
(* SpecIngest, SpecScore, SpecEnsemble, SpecConsumer); a component's       *)
(* specification leaves the other components' variables at their initial   *)
(* values.                                                                 *)
(*                                                                         *)
(* Scores and risks are fixed-point numbers in hundredths (0.90 is 90);    *)
(* the values drawn stay away from the places where binary floating point  *)
(* and decimal arithmetic round differently.                               *)
(***************************************************************************)
EXTENDS Integers, Sequences, FiniteSets, TLC

VARIABLES
    \* ---- audit-svc ----
    objects,          \* MinIO bucket: object key -> stored JSON text
    audit_events,     \* PostgreSQL table audit_events, in insertion order
    utc_time,         \* the wall clock (datetime.utcnow()), in ticks
    next_uuid,        \* number of uuid4() values drawn so far
    audit_responses,  \* successful responses of POST /audit/*
    verify_response,  \* the last response of GET /audit/verify/{event_id}
    tampered,         \* object keys rewritten out of band
    \* ---- feature-svc ----
    velocity,         \* Redis: velocity:<entity>:<window> -> count (0: no key)
    pc,               \* each worker's place in process_event
    current,          \* each worker's event and the counts it has read
    events_seen,      \* number of events handed to process_event so far
    feature_vectors,  \* the FeatureVector objects built (line 289), in order
    features_topic,   \* messages on features.online.v1
    started,          \* per entity: process_event runs that reached the counters
    overlapped,       \* per entity: two runs for it were in flight at once
    disturbed,        \* per entity: a counter key expired or a store call failed
    usual_location,   \* Redis keys usual_location:<entity> (<<>>: no key)
    usual_initialised, \* per entity: its usual_location key has been set before
    key_expiries,     \* keys Redis has dropped so far
    \* ---- decision-svc/app (baseline policy) ----
    policy_payload,   \* the payload last given to decide
    policy_result,    \* what decide returned for it
    \* ---- decision-svc/main.py ----
    current_policy,   \* the module global of that name
    index_store,      \* what the index store answers to the policy query
    watchlist,        \* Redis sets watchlist:entities / :ips / :devices
    device_accounts,  \* Redis sets device_accounts:<fingerprint>
    scores_log,       \* messages on alerts.scores.v1
    position,         \* the consumer's next offset
    committed,        \* the group's committed offset (<<>>: none yet)
    restarts,         \* restarts of the service so far
    decide_calls,     \* POST /decide requests so far
    decisions_topic,  \* messages on alerts.decisions.v1
    decide_response,  \* the last response of POST /decide
    \* ---- ingest-svc/main.py ----
    ingest_request,   \* the last request to POST /txn or POST /claim
    ingest_response,  \* the answer it got
    producer_records, \* records producer.send has accepted, in order
    ingest_requests,  \* requests so far (each may draw one uuid4)
    \* ---- score-svc/app ----
    model,            \* the module global of that name (the Ensemble)
    score_response,   \* the last response of POST /score
    \* ---- score-svc/main.py ----
    xgb_model,        \* the module global of that name
    nn_model,         \* the module globals nn_model and nn_scaler
    model_version,    \* the module global of that name
    score_output,     \* the last result of score_feature_vector
    vectors_taken,    \* messages taken from features.online.v1 so far
    scores_topic,     \* messages the scorer has sent to alerts.scores.v1
    \* ---- the consumer loop (feature-svc consume_events) ----
    log_end,          \* messages on the partition so far
    next_offset,      \* the consumer's position: the next offset it hands out
    group_offset,     \* the group's committed offset (<<>>: none yet)
    handling,         \* the offset being processed (0: none)
    attempts,         \* per offset: processing attempts that finished (up to 2)
    delivered,        \* offsets handed out so far
    interrupted,      \* offsets whose processing a stop cut short
    stops,            \* stops of the worker so far
    \* ---- decision-svc/main.py: the signal checks, called on their own ----
    velocity_patterns, \* Redis keys velocity_pattern_1h/_24h:<entity> (<<>>: no key)
    velocity_call,    \* the last call of check_velocity_anomaly and its result
    graph_call,       \* the last call of check_graph_anomaly and its result
    checks,           \* calls of the two checks so far
    \* ---- model-monitor-svc/app/metrics.py ----
    psi_call,         \* the last call of psi: its lists, bin counts and result
    \* ---- model-monitor-svc/app/store.py ----
    SCORES,           \* the module global of that name (a deque)
    FEATURES,         \* the module global of that name (feature name -> deque)
    score_history,    \* every observation appended to SCORES, oldest first
    feature_history,  \* per feature: every observation pushed, oldest first
    bare              \* payloads so far that lacked a tracked feature

auditVars == <<objects, audit_events, utc_time, next_uuid, audit_responses,
               verify_response, tampered>>
featureVars == <<velocity, pc, current, events_seen,
                 feature_vectors, features_topic, started, overlapped, disturbed,
                 usual_location, usual_initialised, key_expiries>>

policyVars == <<policy_payload, policy_result>>

decisionVars == <<current_policy, index_store, watchlist, device_accounts, scores_log, position,
                  committed, restarts, decide_calls, decisions_topic, decide_response>>

ingestVars == <<ingest_request, ingest_response, producer_records, ingest_requests>>

ensembleVars == <<model, score_response>>

scoreVars == <<xgb_model, nn_model, model_version, score_output, vectors_taken, scores_topic>>

consumerVars == <<log_end, next_offset, group_offset, handling, attempts, delivered,
                  interrupted, stops>>

signalVars == <<velocity_patterns, velocity_call, graph_call, checks>>

psiVars == <<psi_call>>

monitorVars == <<SCORES, FEATURES, score_history, feature_history, bare>>

vars == <<auditVars, featureVars, policyVars, decisionVars, ingestVars, ensembleVars, scoreVars,
          consumerVars, signalVars, psiVars, monitorVars>>

\* The absent value (Python's None, a missing key, SQL NULL).
None == "None"

(***************************************************************************)
(* JSON.  A Python dict is a sequence of <<key, value>> pairs in insertion *)
(* order; a value is a string, None or a nested dict.  json.dumps writes   *)
(* the pairs in insertion order, or in key order with sort_keys=True;      *)
(* json.loads reads them back in the order of the text.  A text is the     *)
(* sequence of its tokens (indentation is the same in every dumps call of  *)
(* the service, indent=2, and is left out).                                *)
(***************************************************************************)
JStr(s) == [tag |-> "str", str |-> s, obj |-> <<>>]
JNull == [tag |-> "null", str |-> "", obj |-> <<>>]
JObj(pairs) == [tag |-> "obj", str |-> "", obj |-> pairs]

\* The keys the services write, in the order Python compares strings
\* (code points: "_" sorts before the lower-case letters).
KeyOrder ==
    <<"action", "bundle_id", "case_id", "created_at", "data", "details",
      "entity_id", "event_id", "event_type", "evidence_type", "metadata",
      "note", "service", "user_id", "version">>

KeyRank(k) == CHOOSE i \in 1..Len(KeyOrder) : KeyOrder[i] = k

RECURSIVE SortKeys(_)
SortKeys(v) ==
    IF v.tag = "obj"
    THEN JObj(SortSeq([i \in 1..Len(v.obj) |->
                          <<v.obj[i][1], SortKeys(v.obj[i][2])>>],
                      LAMBDA a, b : KeyRank(a[1]) < KeyRank(b[1])))
    ELSE v

RECURSIVE DumpsInOrder(_), DumpsMembers(_, _)
DumpsInOrder(v) ==
    IF v.tag = "str" THEN <<"\"", v.str, "\"">>
    ELSE IF v.tag = "null" THEN <<"null">>
    ELSE <<"{">> \o DumpsMembers(v.obj, 1) \o <<"}">>
DumpsMembers(pairs, i) ==
    IF i > Len(pairs) THEN <<>>
    ELSE (IF i > 1 THEN <<",">> ELSE <<>>)
         \o <<"\"", pairs[i][1], "\"", ":">>
         \o DumpsInOrder(pairs[i][2])
         \o DumpsMembers(pairs, i + 1)

json_dumps(v, sort_keys) ==
    IF sort_keys THEN DumpsInOrder(SortKeys(v)) ELSE DumpsInOrder(v)

RECURSIVE ParseValue(_, _), ParseMembers(_, _, _)
ParseValue(t, i) ==
    IF t[i] = "null" THEN [v |-> JNull, n |-> i + 1]
    ELSE IF t[i] = "\"" THEN [v |-> JStr(t[i + 1]), n |-> i + 3]
    ELSE ParseMembers(t, i + 1, <<>>)
ParseMembers(t, i, acc) ==
    IF t[i] = "}" THEN [v |-> JObj(acc), n |-> i + 1]
    ELSE LET j == IF t[i] = "," THEN i + 1 ELSE i
             r == ParseValue(t, j + 4)
         IN  ParseMembers(t, r.n, Append(acc, <<t[j + 1], r.v>>))

json_loads(text) == ParseValue(text, 1).v

\* dict.get(key, default) on a JSON object.
DictHas(d, k) == \E i \in 1..Len(d.obj) : d.obj[i][1] = k
DictGet(d, k, default) ==
    IF DictHas(d, k)
    THEN (LET i == CHOOSE i \in 1..Len(d.obj) : d.obj[i][1] = k
          IN  d.obj[i][2])
    ELSE default

(***************************************************************************)
(* audit-svc                                                               *)
(***************************************************************************)
MaxTime == 2          \* the clock stops here
TicksPerDay == 2      \* ticks in one calendar day
MaxBundles == 2       \* uuid4() values that may be drawn

EventIds == {"E1", "E2"}

\* SHA-256 is taken to be collision free: two digests are equal exactly
\* when the hashed texts are.
calculate_hash(data) == <<"sha256">> \o data

uuid4(n) == ToString(n)
isoformat(t) == ToString(t)
\* strftime("%Y/%m/%d"): the calendar day of a clock reading.
date_path(t) == t \div TicksPerDay
\* (mutation: the key does not carry the bundle id)
object_key_by_date(t, bundle_id) == <<date_path(t), "bundle">>
object_key(t, bundle_id) == <<date_path(t), bundle_id>>

\* Lines 129-139: the evidence record, keys in the order they are written.
evidence_data(bundle_id, data, evidence_type, t_created) ==
    JObj(<< <<"bundle_id", JStr(bundle_id)>>,
            <<"event_id", DictGet(data, "event_id", JStr("unknown"))>>,
            <<"evidence_type", JStr(evidence_type)>>,
            <<"data", data>>,
            <<"created_at", JStr(isoformat(t_created))>>,
            <<"metadata", JObj(<< <<"service", JStr("audit-svc")>>,
                                  <<"version", JStr("1.0.0")>> >>)>> >>)

\* Line 142: the text that is hashed and stored.
bundle_json(bundle_id, data, evidence_type, t_created) ==
    json_dumps(evidence_data(bundle_id, data, evidence_type, t_created), FALSE)

\* AuditEvent.dict(): the fields in declaration order.
AuditEventDict(ev) ==
    JObj(<< <<"event_id", JStr(ev.event_id)>>,
            <<"event_type", JStr(ev.event_type)>>,
            <<"entity_id", IF ev.entity_id = None THEN JNull ELSE JStr(ev.entity_id)>>,
            <<"user_id", JNull>>,
            <<"action", JStr(ev.action)>>,
            <<"details", ev.details>> >>)

\* Request bodies.
AuditEventInputs ==
    { [event_id |-> "E1", event_type |-> "transaction", entity_id |-> None,
       action |-> "ingested", details |-> JObj(<< <<"note", JStr("n")>> >>)] }

DecisionInputs ==
    { JObj(<< <<"event_id", JStr("E1")>>, <<"action", JStr("hold")>> >>),
      JObj(<< <<"action", JStr("allow")>> >>) }

CaseInputs ==
    { JObj(<< <<"case_id", JStr("CASE-1")>>, <<"event_id", JStr("E2")>> >>) }

StrOf(v) == IF v.tag = "str" THEN v.str ELSE None

\* store_evidence_bundle followed by log_audit_event, the body shared by the
\* three POST handlers.  The clock is read when the record is created
\* (line 134), when the object key is made (line 149) and when the row's
\* path is made (line 204); it may advance between the last two reads (an
\* advance between the first two changes only the created_at string).  The object
\* write fails or succeeds; after a successful write the row insert fails
\* (logged, swallowed: lines 212-215) or succeeds.
StoreAndLog(endpoint, evidence_type, row_event_type, row_event_id, row_uuids, data) ==
    /\ next_uuid + row_uuids < MaxBundles
    /\ LET bundle_id == uuid4(next_uuid + row_uuids + 1) IN
       \E t_key \in utc_time..utc_time + 1, put_ok \in BOOLEAN, insert_ok \in BOOLEAN :
       \E t_row \in t_key..utc_time + 1 :
         /\ t_row <= MaxTime
         /\ (~put_ok => ~insert_ok /\ t_row = t_key)
         /\ LET t_created == utc_time
                json_data == bundle_json(bundle_id, data, evidence_type, t_created)
               data_hash == calculate_hash(json_data)
               key == object_key(t_key, bundle_id)
            IN  /\ next_uuid' = next_uuid + row_uuids + 1
                /\ IF put_ok
                   THEN /\ objects' = [k \in DOMAIN objects \cup {key} |->
                                          IF k = key THEN json_data ELSE objects[k]]
                        /\ utc_time' = t_row
                        /\ audit_events' =
                             IF insert_ok
                             THEN Append(audit_events,
                                         [event_id |-> row_event_id,
                                          event_type |-> row_event_type,
                                          evidence_hash |-> data_hash,
                                          evidence_path |-> object_key(t_row, bundle_id)])
                             ELSE audit_events
                        /\ audit_responses' = audit_responses \cup
                             {[endpoint |-> endpoint, event_id |-> row_event_id,
                               payload |-> data, bundle_id |-> bundle_id,
                               hash |-> data_hash, key |-> key,
                               indexed |-> insert_ok]}
                   ELSE /\ utc_time' = t_key
                        /\ UNCHANGED <<objects, audit_events, audit_responses>>
    /\ UNCHANGED <<verify_response, tampered>>
    /\ UNCHANGED <<featureVars, policyVars, decisionVars, ingestVars, ensembleVars, scoreVars,
                 consumerVars,
                 signalVars, psiVars, monitorVars>>

NoPath == <<>>

\* POST /audit/event
log_event ==
    \E ev \in AuditEventInputs :
        StoreAndLog("/audit/event", "audit_event", ev.event_type, ev.event_id, 0, AuditEventDict(ev))

\* POST /audit/decision.  A body without event_id gets a fresh uuid as the
\* row's event identifier (line 273) while the bundle says "unknown".
log_decision ==
    \E d \in DecisionInputs :
        IF DictHas(d, "event_id")
        THEN StoreAndLog("/audit/decision", "decision", "decision", StrOf(DictGet(d, "event_id", JNull)), 0, d)
        ELSE StoreAndLog("/audit/decision", "decision", "decision", uuid4(next_uuid + 1), 1, d)

\* POST /audit/case
log_case_event ==
    \E d \in CaseInputs :
        StoreAndLog("/audit/case", "case_event", "case", StrOf(DictGet(d, "event_id", JNull)), 0, d)

\* GET /audit/{event_id}: cursor.fetchone() of an unordered SELECT gives one
\* of the rows with this event identifier; the object at the row's path is
\* read and parsed, and a failed read leaves evidence_data None.
\* GET /audit/verify/{event_id}: re-serialise with sort_keys=True, hash,
\* compare with the row's hash.
verify_audit_integrity ==
    \E event_id \in EventIds :
        /\ IF \E i \in 1..Len(audit_events) : audit_events[i].event_id = event_id
           THEN \E i \in 1..Len(audit_events) :
                  /\ audit_events[i].event_id = event_id
                  /\ LET row == audit_events[i]
                         found == row.evidence_path \in DOMAIN objects
                     IN  verify_response' =
                           (IF ~found
                            THEN [event_id |-> event_id, path |-> row.evidence_path,
                                  integrity_status |-> "no_evidence"]
                            ELSE LET evidence == json_loads(objects[row.evidence_path])
                                     evidence_json == json_dumps(evidence, TRUE)
                                     calculated_hash == calculate_hash(evidence_json)
                                 IN  [event_id |-> event_id, path |-> row.evidence_path,
                                      integrity_status |->
                                        IF calculated_hash = row.evidence_hash
                                        THEN "verified" ELSE "compromised"])
           ELSE verify_response' =
                  [event_id |-> event_id, path |-> NoPath, integrity_status |-> "http_404"]
        /\ UNCHANGED <<objects, audit_events, utc_time, next_uuid, audit_responses, tampered>>
        /\ UNCHANGED <<featureVars, policyVars, decisionVars, ingestVars, ensembleVars, scoreVars,
                 consumerVars,
                 signalVars, psiVars, monitorVars>>

\* The clock advances between requests.
Tick ==
    /\ utc_time < MaxTime
    /\ utc_time' = utc_time + 1
    /\ UNCHANGED <<objects, audit_events, next_uuid, audit_responses,
                   verify_response, tampered>>
    /\ UNCHANGED <<featureVars, policyVars, decisionVars, ingestVars, ensembleVars, scoreVars,
                 consumerVars,
                 signalVars, psiVars, monitorVars>>

\* Out-of-band rewrite of a stored object (the environment, not the service).
Tamper ==
    \E k \in DOMAIN objects :
        /\ k \notin tampered
        /\ objects' = [objects EXCEPT ![k] = <<"{", "}">>]
        /\ tampered' = tampered \cup {k}
        /\ UNCHANGED <<audit_events, utc_time, next_uuid, audit_responses, verify_response>>
        /\ UNCHANGED <<featureVars, policyVars, decisionVars, ingestVars, ensembleVars, scoreVars,
                 consumerVars,
                 signalVars, psiVars, monitorVars>>

(***************************************************************************)
(* feature-svc: process_event, step by step.  Two workers run it: the log  *)
(* consumer thread (consume_events) and the POST /process handler.  The    *)
(* reads of get_velocity_counts are one step and the INCR and EXPIRE of    *)
(* each window are one step, so the Redis calls of two runs interleave     *)
(* between the reads and each window's update.  A key that exists has its  *)
(* TTL set, and Redis may drop it at any time.                             *)
(***************************************************************************)
MaxEvents == 2        \* events handed to process_event
MaxExpiries == 1      \* keys Redis drops on TTL

Workers == {"consumer", "http"}
Entities == {"acct1", "acct2"}
Windows == <<"1h", "24h", "7d">>
WindowSet == {"1h", "24h", "7d"}

\* The places of a run, in program order: the reads of
\* get_velocity_counts, then INCR and EXPIRE per window in
\* update_velocity_counts, then the rest of the handler.
Steps == <<"get", "update_1h", "update_24h", "update_7d", "publish">>
StepIndex(p) == CHOOSE i \in 1..Len(Steps) : Steps[i] = p
NextStep(p) == Steps[StepIndex(p) + 1]

NoEvent == [event_id |-> 0, entity_id |-> None, k |-> 0]
NoCounts == [w \in WindowSet |-> 0]

FeatureInit ==
    /\ velocity = [e \in Entities |-> [w \in WindowSet |-> 0]]
    /\ pc = [w \in Workers |-> "idle"]
    /\ current = [w \in Workers |-> [event |-> NoEvent, counts |-> NoCounts]]
    /\ events_seen = 0
    /\ feature_vectors = <<>>
    /\ features_topic = <<>>
    /\ started = [e \in Entities |-> 0]
    /\ overlapped = [e \in Entities |-> FALSE]
    /\ disturbed = [e \in Entities |-> FALSE]
    /\ usual_location = [e \in Entities |-> <<>>]
    /\ usual_initialised = [e \in Entities |-> FALSE]
    /\ key_expiries = 0

\* A worker is inside process_event for this entity.
Busy(w, e) == pc[w] # "idle" /\ current[w].event.entity_id = e

\* Lines 249-260: the event parses (TransactionEvent / ClaimEvent) and the
\* run goes on to the counters; the event is the k-th of its entity.
BeginEvent(w) ==
    /\ pc[w] = "idle"
    /\ events_seen < MaxEvents
    /\ \E e \in Entities :
         /\ events_seen' = events_seen + 1
         /\ started' = [started EXCEPT ![e] = @ + 1]
         /\ current' = [current EXCEPT ![w] =
                          [event |-> [event_id |-> events_seen + 1, entity_id |-> e,
                                      k |-> started[e] + 1],
                           counts |-> NoCounts]]
         /\ overlapped' = [overlapped EXCEPT ![e] =
                             @ \/ \E o \in Workers \ {w} : Busy(o, e)]
    /\ pc' = [pc EXCEPT ![w] = "get"]
    /\ UNCHANGED <<velocity, feature_vectors, features_topic, disturbed>>
    /\ UNCHANGED <<usual_location, usual_initialised, key_expiries>>
    /\ UNCHANGED <<auditVars, policyVars, decisionVars, ingestVars, ensembleVars, scoreVars,
                 consumerVars,
                 signalVars, psiVars, monitorVars>>

\* Lines 249-256, 330-331: the event fails validation; the error is logged
\* and nothing else happens.
RejectEvent(w) ==
    /\ pc[w] = "idle"
    /\ events_seen < MaxEvents
    /\ events_seen' = events_seen + 1
    /\ UNCHANGED <<velocity, pc, current, feature_vectors,
                   features_topic, started, overlapped, disturbed>>
    /\ UNCHANGED <<usual_location, usual_initialised, key_expiries>>
    /\ UNCHANGED <<auditVars, policyVars, decisionVars, ingestVars, ensembleVars, scoreVars,
                 consumerVars,
                 signalVars, psiVars, monitorVars>>

WindowOf(p) ==
    IF p = "update_1h" THEN "1h" ELSE IF p = "update_24h" THEN "24h" ELSE "7d"

\* (mutation: the counters are read after this event's own increment)
get_velocity_counts_after_update(e) == [win \in WindowSet |-> velocity[e][win] + 1]

\* get_velocity_counts, lines 145-148: GET per window, a missing key reads
\* as 0.
get_velocity_counts(e) == [win \in WindowSet |-> velocity[e][win]]

GetStep(w) ==
    /\ pc[w] = "get"
    /\ current' = [current EXCEPT ![w].counts =
                     get_velocity_counts(current[w].event.entity_id)]
    /\ pc' = [pc EXCEPT ![w] = NextStep(pc[w])]
    /\ UNCHANGED <<velocity, events_seen, feature_vectors,
                   features_topic, started, overlapped, disturbed>>
    /\ UNCHANGED <<usual_location, usual_initialised, key_expiries>>
    /\ UNCHANGED <<auditVars, policyVars, decisionVars, ingestVars, ensembleVars, scoreVars,
                 consumerVars,
                 signalVars, psiVars, monitorVars>>

\* update_velocity_counts, lines 158-170: INCR (a missing key becomes 1),
\* then EXPIRE with the window's TTL.
UpdateStep(w) ==
    /\ pc[w] \in {"update_1h", "update_24h", "update_7d"}
    /\ LET e == current[w].event.entity_id
           win == WindowOf(pc[w])
       IN  velocity' = [velocity EXCEPT ![e][win] = @ + 1]
    /\ pc' = [pc EXCEPT ![w] = NextStep(pc[w])]
    /\ UNCHANGED <<current, events_seen, feature_vectors,
                   features_topic, started, overlapped, disturbed>>
    /\ UNCHANGED <<usual_location, usual_initialised, key_expiries>>
    /\ UNCHANGED <<auditVars, policyVars, decisionVars, ingestVars, ensembleVars, scoreVars,
                 consumerVars,
                 signalVars, psiVars, monitorVars>>

\* Lines 289-314: the FeatureVector built from the counts read earlier.
\* (The risk, geolocation and account-age lookups of lines 269-286 use
\* other keys and do not touch the counters.)
FeatureVector(ev, counts) ==
    [event_id |-> [type |-> "UUID", value |-> ev.event_id],
     entity_id |-> ev.entity_id,
     velocity_1h |-> counts["1h"],
     velocity_24h |-> counts["24h"],
     velocity_7d |-> counts["7d"],
     k |-> ev.k]

\* json.dumps, the producer's value_serializer (line 89): a uuid.UUID value
\* is not serialisable (TypeError); feature_vector.dict() keeps event_id a
\* UUID and only the timestamp is converted (lines 317-318).
JsonSerializable(d) == d.event_id.type = "str"

\* get_geolocation, lines 173-199: the cached geo:<ip> value, else the
\* fixed default, which is then cached; nothing else writes geo:<ip>, so
\* every address resolves to this point (degrees * 10^4).
DefaultGeolocation == [lat |-> 377749, lon |-> 0 - 1224194]

\* calculate_geo_distance, lines 202-224: the key after the call.  A missing
\* key is set (SETEX, 30 days) to the current point; an existing one is
\* only read.
usual_location_after(stored, current_point) ==
    IF stored = <<>> THEN <<current_point>> ELSE stored

\* Where the lookups of lines 269-286 stop: "none" (all succeed), "early"
\* (a Redis call before calculate_geo_distance raises), "late" (one after
\* it raises: get_account_age).
LookupFailures == {"none", "early", "late"}

\* Lines 269-331: the remaining lookups (a Redis call of theirs may raise),
\* then build the vector and publish it; an exception anywhere is logged and
\* the run ends.  An event without ip_address has no geolocation and skips
\* calculate_geo_distance (lines 273-283).
PublishStep(w) ==
    /\ pc[w] = "publish"
    /\ \E failure \in LookupFailures, has_ip \in BOOLEAN :
         LET fv == FeatureVector(current[w].event, current[w].counts)
             e == current[w].event.entity_id
         IN
         /\ IF failure = "none"
            THEN /\ feature_vectors' = Append(feature_vectors, fv)
                 /\ features_topic' =
                      IF JsonSerializable(fv)
                      THEN Append(features_topic, [key |-> fv.entity_id, value |-> fv])
                      ELSE features_topic
            ELSE UNCHANGED <<feature_vectors, features_topic>>
         /\ UNCHANGED key_expiries
         /\ IF failure # "early" /\ has_ip
            THEN /\ usual_location' =
                      [usual_location EXCEPT
                         ![e] = usual_location_after(@, DefaultGeolocation)]
                 /\ usual_initialised' = [usual_initialised EXCEPT ![e] = TRUE]
            ELSE UNCHANGED <<usual_location, usual_initialised>>
    /\ pc' = [pc EXCEPT ![w] = "idle"]
    /\ current' = [current EXCEPT ![w] = [event |-> NoEvent, counts |-> NoCounts]]
    /\ UNCHANGED <<velocity, events_seen, started, overlapped, disturbed>>
    /\ UNCHANGED <<auditVars, policyVars, decisionVars, ingestVars, ensembleVars, scoreVars,
                 consumerVars,
                 signalVars, psiVars, monitorVars>>

\* A Redis call on the counters raises (connection error, timeout): the
\* exception is caught at line 330, the run ends without a vector.
StoreError(w) ==
    /\ pc[w] \notin {"idle", "publish"}
    /\ disturbed' = [disturbed EXCEPT ![current[w].event.entity_id] = TRUE]
    /\ pc' = [pc EXCEPT ![w] = "idle"]
    /\ current' = [current EXCEPT ![w] = [event |-> NoEvent, counts |-> NoCounts]]
    /\ UNCHANGED <<velocity, events_seen, feature_vectors,
                   features_topic, started, overlapped>>
    /\ UNCHANGED <<usual_location, usual_initialised, key_expiries>>
    /\ UNCHANGED <<auditVars, policyVars, decisionVars, ingestVars, ensembleVars, scoreVars,
                 consumerVars,
                 signalVars, psiVars, monitorVars>>

\* Redis drops a key whose TTL has run out.
KeyExpires ==
    \E e \in Entities, win \in WindowSet :
        /\ key_expiries < MaxExpiries
        /\ key_expiries' = key_expiries + 1
        /\ velocity[e][win] > 0
        /\ velocity' = [velocity EXCEPT ![e][win] = 0]
        /\ disturbed' = [disturbed EXCEPT ![e] = TRUE]
        /\ UNCHANGED <<pc, current, events_seen, feature_vectors, features_topic,
                       started, overlapped>>
        /\ UNCHANGED <<usual_location, usual_initialised>>
        /\ UNCHANGED <<auditVars, policyVars, decisionVars, ingestVars, ensembleVars, scoreVars,
                 consumerVars,
                 signalVars, psiVars, monitorVars>>

\* Redis drops usual_location:<entity> when its 30 days (line 214) are over;
\* nothing refreshes the TTL.
UsualLocationExpires ==
    \E e \in Entities :
        /\ key_expiries < MaxExpiries
        /\ key_expiries' = key_expiries + 1
        /\ usual_location[e] # <<>>
        /\ usual_location' = [usual_location EXCEPT ![e] = <<>>]
        /\ UNCHANGED <<velocity, pc, current, events_seen, feature_vectors,
                       features_topic, started, overlapped, disturbed, usual_initialised>>
        /\ UNCHANGED <<auditVars, policyVars, decisionVars, ingestVars, ensembleVars, scoreVars,
                 consumerVars,
                 signalVars, psiVars, monitorVars>>

FeatureNext ==
    \/ \E w \in Workers : BeginEvent(w)
    \/ \E w \in Workers : RejectEvent(w)
    \/ \E w \in Workers : GetStep(w)
    \/ \E w \in Workers : UpdateStep(w)
    \/ \E w \in Workers : PublishStep(w)
    \/ \E w \in Workers : StoreError(w)
    \/ KeyExpires
    \/ UsualLocationExpires

(***************************************************************************)
(* decision-svc/app/policy.py: the baseline decision function.  An         *)
(* optional value (a key that may be missing from a dict) is <<>> when     *)
(* missing and <<v>> when present.                                         *)
(***************************************************************************)
BLOCK_THRESHOLD == 90
HOLD_THRESHOLD == 70
TRUSTED_CHANNELS == {"mobile"}

\* dict.get(key, default)
GetOr(opt, default) == IF opt = <<>> THEN default ELSE opt[1]

PolicyPayloads ==
    [calibrated : {<<>>, <<30>>, <<69>>, <<70>>, <<80>>, <<85>>, <<89>>, <<90>>, <<95>>},
     velocity_1h : {<<>>, <<3>>, <<7>>, <<8>>, <<10>>},
     ip_risk : {<<>>, <<40>>, <<79>>, <<80>>, <<90>>},
     channel : {<<>>, <<"mobile">>, <<"web">>}]

\* (mutation: the block threshold is exclusive)
decide_block_exclusive(payload) ==
    LET s == GetOr(payload.calibrated, 0)
        r1 == IF GetOr(payload.velocity_1h, 0) >= 8 THEN <<"velocity_high">> ELSE <<>>
        r2 == IF GetOr(payload.ip_risk, 0) >= 80 THEN <<"ip_proxy_match">> ELSE <<>>
        r3 == IF payload.channel = <<>> \/ payload.channel[1] \notin TRUSTED_CHANNELS
              THEN <<"untrusted_channel">> ELSE <<>>
        reasons == r1 \o r2 \o r3
    IN  IF s > BLOCK_THRESHOLD \/ (r2 # <<>> /\ s >= 80)
        THEN [action |-> "block", reasons |-> reasons]
        ELSE IF s >= HOLD_THRESHOLD \/ r1 # <<>>
        THEN [action |-> "hold", reasons |-> reasons]
        ELSE [action |-> "allow", reasons |-> reasons]

\* (mutation: the channel reason is appended before the IP reason)
decide_channel_first(payload) ==
    LET s == GetOr(payload.calibrated, 0)
        r1 == IF GetOr(payload.velocity_1h, 0) >= 8 THEN <<"velocity_high">> ELSE <<>>
        r2 == IF GetOr(payload.ip_risk, 0) >= 80 THEN <<"ip_proxy_match">> ELSE <<>>
        r3 == IF payload.channel = <<>> \/ payload.channel[1] \notin TRUSTED_CHANNELS
              THEN <<"untrusted_channel">> ELSE <<>>
        reasons == r1 \o r3 \o r2
    IN  IF s >= BLOCK_THRESHOLD \/ (r2 # <<>> /\ s >= 80)
        THEN [action |-> "block", reasons |-> reasons]
        ELSE IF s >= HOLD_THRESHOLD \/ r1 # <<>>
        THEN [action |-> "hold", reasons |-> reasons]
        ELSE [action |-> "allow", reasons |-> reasons]

\* decide, lines 3-20.
decide(payload) ==
    LET s == GetOr(payload.calibrated, 0)
        r1 == IF GetOr(payload.velocity_1h, 0) >= 8 THEN <<"velocity_high">> ELSE <<>>
        r2 == IF GetOr(payload.ip_risk, 0) >= 80 THEN <<"ip_proxy_match">> ELSE <<>>
        r3 == IF payload.channel = <<>> \/ payload.channel[1] \notin TRUSTED_CHANNELS
              THEN <<"untrusted_channel">> ELSE <<>>
        reasons == r1 \o r2 \o r3
    IN  IF s >= BLOCK_THRESHOLD \/ (r2 # <<>> /\ s >= 80)
        THEN [action |-> "block", reasons |-> reasons]
        ELSE IF s >= HOLD_THRESHOLD \/ r1 # <<>>
        THEN [action |-> "hold", reasons |-> reasons]
        ELSE [action |-> "allow", reasons |-> reasons]

NoPayload == [calibrated |-> <<>>, velocity_1h |-> <<>>, ip_risk |-> <<>>, channel |-> <<>>]
NoResult == [action |-> None, reasons |-> <<>>]

PolicyInit ==
    /\ policy_payload = NoPayload
    /\ policy_result = NoResult

\* A call of decide (the unit tests, the /decide endpoint of app/main.py).
Decide ==
    \E payload \in PolicyPayloads :
        /\ policy_payload' = payload
        /\ policy_result' = decide(payload)
        /\ UNCHANGED <<auditVars, featureVars, decisionVars, ingestVars, ensembleVars, scoreVars,
                 consumerVars,
                 signalVars, psiVars, monitorVars>>

PolicyNext == Decide

(***************************************************************************)
(* Claims on the baseline policy (specification SpecPolicy).               *)
(***************************************************************************)
Decided == policy_result.action # None

\* C6: decide returns 'block' exactly when calibrated >= 0.90 or (ip_risk >=
\* 0.8 and calibrated >= 0.80); otherwise 'hold' exactly when calibrated >=
\* 0.70 or velocity_1h >= 8; otherwise 'allow'.
C6_BaselineDecision ==
    Decided =>
        LET s == GetOr(policy_payload.calibrated, 0)
            v == GetOr(policy_payload.velocity_1h, 0)
            ip == GetOr(policy_payload.ip_risk, 0)
            blocks == s >= 90 \/ (ip >= 80 /\ s >= 80)
            holds == s >= 70 \/ v >= 8
        IN  /\ (policy_result.action = "block") <=> blocks
            /\ (policy_result.action = "hold") <=> (~blocks /\ holds)
            /\ (policy_result.action = "allow") <=> (~blocks /\ ~holds)

C6_Witness ==
    /\ Decided
    /\ policy_payload.calibrated = <<90>>
    /\ GetOr(policy_payload.ip_risk, 0) < 80
    /\ policy_result.action = "block"

\* C7: the reasons are exactly, in this order, 'velocity_high' iff
\* velocity_1h >= 8, 'ip_proxy_match' iff ip_risk >= 0.8, 'untrusted_channel'
\* iff the channel is not a trusted one, whatever the action.
C7_ReasonDerivation ==
    Decided =>
        LET v == GetOr(policy_payload.velocity_1h, 0)
            ip == GetOr(policy_payload.ip_risk, 0)
            untrusted == policy_payload.channel # <<"mobile">>
            expected == (IF v >= 8 THEN <<"velocity_high">> ELSE <<>>)
                        \o (IF ip >= 80 THEN <<"ip_proxy_match">> ELSE <<>>)
                        \o (IF untrusted THEN <<"untrusted_channel">> ELSE <<>>)
        IN  policy_result.reasons = expected

C7_Witness ==
    /\ Decided
    /\ policy_result.reasons = <<"velocity_high", "ip_proxy_match", "untrusted_channel">>
    /\ policy_result.action = "hold"

(***************************************************************************)
(* decision-svc/main.py: the policy, the side-signal checks, make_decision *)
(* and the alerts.scores.v1 consumer.                                      *)
(***************************************************************************)
MaxScores == 2        \* messages the scorer publishes
MaxRestarts == 1      \* restarts of the decision service
MaxDecides == 1       \* POST /decide requests

\* A condition of a rule group: a dict that may hold 'calibrated_score'
\* (with 'gte' and/or 'lt'), 'watchlist_hit', 'conflicting_signals',
\* 'velocity_normal'.  evaluate_conditions tests the presence of the last
\* three keys, not their values.
Cond(gte, lt, watchlist_hit, conflicting_signals, velocity_normal) ==
    [calibrated_score |-> IF gte = <<>> /\ lt = <<>> THEN <<>>
                          ELSE <<[gte |-> gte, lt |-> lt]>>,
     watchlist_hit |-> watchlist_hit,
     conflicting_signals |-> conflicting_signals,
     velocity_normal |-> velocity_normal]

Group(conditions, action, reason_codes) ==
    [present |-> TRUE, conditions |-> conditions, action |-> action,
     reason_codes |-> reason_codes]
NoGroup == [present |-> FALSE, conditions |-> <<>>, action |-> None, reason_codes |-> <<>>]

\* current_policy = None (line 48).
NoPolicy == [version |-> None, rules |-> [block |-> NoGroup, hold |-> NoGroup, allow |-> NoGroup]]

\* Lines 146-176: the built-in policy used when no active row exists.
DefaultPolicy ==
    [version |-> "v1.0",
     rules |->
       [block |-> Group(<< Cond(<<90>>, <<>>, FALSE, FALSE, FALSE),
                           Cond(<<80>>, <<>>, TRUE, FALSE, FALSE) >>,
                        "block", <<"high_risk_score", "watchlist_match">>),
        hold |-> Group(<< Cond(<<70>>, <<90>>, FALSE, FALSE, FALSE),
                          Cond(<<>>, <<>>, FALSE, TRUE, FALSE) >>,
                       "hold", <<"medium_risk", "conflicting_signals">>),
        allow |-> Group(<< Cond(<<>>, <<70>>, FALSE, FALSE, FALSE),
                           Cond(<<>>, <<>>, FALSE, FALSE, TRUE) >>,
                        "allow", <<"low_risk", "normal_velocity">>)]]

\* Lines 184-195: the policy installed when loading raised.
FallbackPolicy ==
    [version |-> "v1.0",
     rules |->
       [block |-> NoGroup,
        hold |-> NoGroup,
        allow |-> Group(<< Cond(<<>>, <<100>>, FALSE, FALSE, FALSE) >>,
                        "allow", <<"default_allow">>)]]

\* Lines 137-142: an active row of decision_policy.  The row modelled blocks
\* from 0.85, escalates from 0.60 and allows below, with no reason codes
\* on allow.
RowPolicy ==
    [version |-> "v2.0",
     rules |->
       [block |-> Group(<< Cond(<<85>>, <<>>, FALSE, FALSE, FALSE) >>,
                        "block", <<"critical_risk">>),
        hold |-> Group(<< Cond(<<60>>, <<85>>, FALSE, FALSE, FALSE) >>,
                       "escalate", <<"needs_review">>),
        allow |-> Group(<< Cond(<<>>, <<60>>, FALSE, FALSE, FALSE) >>,
                        "allow", <<>>)]]

\* Lines 137-142 take policy_config as it is stored: nothing checks the
\* action strings of a row.  This row sends the middle band to "review".
RowPolicyReview ==
    [RowPolicy EXCEPT !.version = "v2.1", !.rules.hold.action = "review"]

\* load_decision_policy, lines 117-195, by what the index store does:
\* "noconn" (no connection: the global is left as it was), "row" and
\* "row_review" (an active row), "norow", "error" (the query raised).
IndexStoreStates == {"noconn", "row", "row_review", "norow", "error"}
LoadedPolicy(old, outcome) ==
    IF outcome = "noconn" THEN old
    ELSE IF outcome = "row" THEN RowPolicy
    ELSE IF outcome = "row_review" THEN RowPolicyReview
    ELSE IF outcome = "norow" THEN DefaultPolicy
    ELSE FallbackPolicy

\* Score records (hundredths), as the scorer computes them: ensemble from
\* the weights (0.5, 0.3, 0.2), calibrated = 1 / (1 + exp(-5 (ensemble - 0.5))).
ScoreRecords ==
    { [xgb |-> 10, nn |-> 10, rules |-> 10, ensemble |-> 10, calibrated |-> 12],
      [xgb |-> 0, nn |-> 0, rules |-> 100, ensemble |-> 20, calibrated |-> 18],
      [xgb |-> 80, nn |-> 80, rules |-> 80, ensemble |-> 80, calibrated |-> 82],
      [xgb |-> 100, nn |-> 100, rules |-> 100, ensemble |-> 100, calibrated |-> 92] }

\* The events behind the score messages.  A ScoreOutput carries only the
\* event identifier and the scores; the rest stays with the event.
EventOrigins ==
    { [entity_id |-> "acct1", ip_address |-> "ip1", device_fingerprint |-> "dev1",
       channel |-> "web", velocity_1h |-> 9, velocity_24h |-> 20, ip_risk |-> 90],
      [entity_id |-> "acct2", ip_address |-> None, device_fingerprint |-> None,
       channel |-> "mobile", velocity_1h |-> 2, velocity_24h |-> 30, ip_risk |-> 30] }

Devices == {"dev1"}

\* What the watchlists may hold.
WatchlistStates ==
    { [entities |-> {"acct1"}, ips |-> {"ip1"}, devices |-> {"dev1"}],
      [entities |-> {}, ips |-> {"ip1"}, devices |-> {}] }

\* Averages are kept in ten-thousandths, so that 0.1 * v + 0.9 * avg is exact
\* for the few updates a run makes.
VelocityScale == 10000

VelocityEntities == {"acct1", "acct2", "acct3"}

\* Redis keys velocity_pattern_1h:<entity> and velocity_pattern_24h:<entity>
\* (<<>>: no key), lines 204-205.
velocity_pattern(entity_id) ==
    IF entity_id \in DOMAIN velocity_patterns THEN velocity_patterns[entity_id]
    ELSE [h1 |-> <<>>, h24 |-> <<>>]

\* check_velocity_anomaly, lines 198-238: its result.  No line of the file
\* calls it.
check_velocity_anomaly(entity_id, velocity_1h, velocity_24h, redis_ok) ==
    LET historical_1h == velocity_pattern(entity_id).h1
        historical_24h == velocity_pattern(entity_id).h24
    IN  IF ~redis_ok THEN FALSE
        ELSE IF historical_1h # <<>> /\ velocity_1h * VelocityScale > historical_1h[1] * 3
             THEN TRUE
        ELSE IF historical_24h # <<>> /\ velocity_24h * VelocityScale > historical_24h[1] * 2
             THEN TRUE
        ELSE FALSE

\* Lines 219-232: the stored average after the update, 0.1 * current +
\* 0.9 * previous, or the current value when there is no key.
moving_average(historical, current_velocity) ==
    IF historical = <<>> THEN <<current_velocity * VelocityScale>>
    ELSE <<(current_velocity * VelocityScale) \div 10 + (9 * historical[1]) \div 10>>

\* check_velocity_anomaly, lines 198-238: the keys it leaves.  Both returns
\* of True (lines 211 and 216) come before the update of lines 218-232.
velocity_patterns_after(entity_id, velocity_1h, velocity_24h, redis_ok) ==
    IF ~redis_ok \/ check_velocity_anomaly(entity_id, velocity_1h, velocity_24h, redis_ok)
    THEN velocity_patterns
    ELSE [velocity_patterns EXCEPT ![entity_id] =
              [h1 |-> moving_average(@.h1, velocity_1h),
               h24 |-> moving_average(@.h24, velocity_24h)]]

\* check_watchlist, lines 241-263; a Redis error ends the checks (here: all
\* of them).
check_watchlist(entity_id, ip_address, device_fingerprint, redis_ok) ==
    IF ~redis_ok THEN <<>>
    ELSE (IF entity_id \in watchlist.entities THEN <<"entity_watchlist">> ELSE <<>>)
         \o (IF ip_address # None /\ ip_address \in watchlist.ips
             THEN <<"ip_watchlist">> ELSE <<>>)
         \o (IF device_fingerprint # None /\ device_fingerprint \in watchlist.devices
             THEN <<"device_watchlist">> ELSE <<>>)

\* check_graph_anomaly, lines 266-290: SCARD before SADD, flag when the count
\* read exceeds 5.
check_graph_anomaly(entity_id, device_fingerprint, redis_ok) ==
    IF ~redis_ok \/ device_fingerprint = None THEN FALSE
    ELSE Cardinality(device_accounts[device_fingerprint]) > 5

graph_accounts_after(entity_id, device_fingerprint, redis_ok) ==
    IF ~redis_ok \/ device_fingerprint = None THEN device_accounts
    ELSE [device_accounts EXCEPT ![device_fingerprint] = @ \cup {entity_id}]

\* Lines 311-319: the variance of (xgb, nn, rules) is at least 0.1.
ConflictingSignals(score_data) ==
    LET total == score_data.xgb + score_data.nn + score_data.rules
        sq(x) == (3 * x - total) * (3 * x - total)
    IN  sq(score_data.xgb) + sq(score_data.nn) + sq(score_data.rules) >= 27000

\* evaluate_conditions, lines 293-328: one pass of the loop body; the
\* condition is met when no test continues.
ConditionMet(condition, score_data) ==
    /\ (condition.calibrated_score # <<>> =>
          LET score_condition == condition.calibrated_score[1] IN
          /\ ~(score_condition.gte # <<>> /\ score_data.calibrated < score_condition.gte[1])
          /\ ~(score_condition.lt # <<>> /\ score_data.calibrated >= score_condition.lt[1]))
    /\ ~condition.watchlist_hit
    /\ (condition.conflicting_signals => ConflictingSignals(score_data))
    /\ ~condition.velocity_normal

evaluate_conditions(conditions, score_data) ==
    \E i \in 1..Len(conditions) : ConditionMet(conditions[i], score_data)

\* Lines 361-367: the first of block, hold, allow that is present and whose
\* conditions evaluate true ("none" when there is none).
MatchedGroup(policy, score_data) ==
    IF policy.rules.block.present /\ evaluate_conditions(policy.rules.block.conditions, score_data)
    THEN "block"
    ELSE IF policy.rules.hold.present /\ evaluate_conditions(policy.rules.hold.conditions, score_data)
    THEN "hold"
    ELSE IF policy.rules.allow.present /\ evaluate_conditions(policy.rules.allow.conditions, score_data)
    THEN "allow"
    ELSE "none"

\* DecisionOutput, decisions.py lines 9-26: risk is bounded (ge=0, le=1);
\* action is a plain str with no validator.
DecisionOutputAccepts(risk, action) == risk >= 0 /\ risk <= 100

\* make_decision, lines 331-411, with a policy in place.  `reasons` is the
\* matched group's own reason_codes list (line 366), so what is appended to
\* it is appended to the policy; the result is the decision and the policy
\* afterwards.  The decision also records what the rule loop picked (group,
\* rule_action, rule_reasons), the score record and the event it is about.
make_decision(policy, evt, score_data, entity_id, ip_address, device_fingerprint, redis_ok) ==
    LET velocity_anomaly == FALSE    \* line 349
        graph_anomaly == check_graph_anomaly(entity_id, device_fingerprint, redis_ok)
        watchlist_hits == check_watchlist(entity_id, ip_address, device_fingerprint, redis_ok)
        g == MatchedGroup(policy, score_data)
        action0 == IF g = "none" THEN "allow" ELSE policy.rules[g].action
        reasons0 == IF g = "none" THEN <<>> ELSE policy.rules[g].reason_codes
        action1 == IF watchlist_hits # <<>>
                   THEN (IF score_data.calibrated >= 80 THEN "block" ELSE "hold")
                   ELSE action0
        reasons1 == reasons0 \o watchlist_hits
        action_v == IF velocity_anomaly /\ action1 = "allow" THEN "hold" ELSE action1
        reasons_v == IF velocity_anomaly THEN Append(reasons1, "velocity_anomaly")
                     ELSE reasons1
        action2 == IF graph_anomaly /\ action_v = "allow" THEN "hold" ELSE action_v
        reasons2 == IF graph_anomaly THEN Append(reasons_v, "graph_anomaly") ELSE reasons_v
        case_id == IF action2 \in {"hold", "block", "escalate"} THEN "CASE" ELSE None
    IN  [decision |->
           [event_id |-> evt.event_id,
            risk |-> score_data.calibrated,
            action |-> action2,
            policy |-> policy.version,
            reasons |-> reasons2,
            case_id |-> case_id,
            watchlist_hits |-> watchlist_hits,
            velocity_anomaly |-> velocity_anomaly,
            graph_anomaly |-> graph_anomaly,
            group |-> g,
            rule_action |-> action0,
            rule_reasons |-> reasons0,
            scores |-> score_data,
            event |-> evt.origin],
         policy |->
           IF g = "none" THEN policy
           ELSE [policy EXCEPT !.rules[g].reason_codes = reasons2]]

NoDecision ==
    [event_id |-> 0, risk |-> 0, action |-> None, policy |-> None, reasons |-> <<>>,
     case_id |-> None, watchlist_hits |-> <<>>, velocity_anomaly |-> FALSE,
     graph_anomaly |-> FALSE,
     group |-> "none", rule_action |-> None, rule_reasons |-> <<>>,
     scores |-> [xgb |-> 0, nn |-> 0, rules |-> 0, ensemble |-> 0, calibrated |-> 0],
     event |-> [entity_id |-> None, ip_address |-> None, device_fingerprint |-> None,
                channel |-> None, velocity_1h |-> 0, velocity_24h |-> 0, ip_risk |-> 0]]

DecisionInit ==
    /\ current_policy = NoPolicy
    /\ index_store = "norow"
    /\ watchlist = [entities |-> {}, ips |-> {}, devices |-> {}]
    /\ device_accounts = [d \in Devices |-> {}]
    /\ scores_log = <<>>
    /\ position = 1
    /\ committed = <<>>
    /\ restarts = 0
    /\ decide_calls = 0
    /\ decisions_topic = <<>>
    /\ decide_response = NoDecision

\* The deployment the service runs against: an empty decision_policy table
\* and empty watchlists at first, or what operators put there before the
\* service has loaded a policy or taken a message or request.
Provision ==
    /\ current_policy = NoPolicy
    /\ scores_log = <<>> /\ committed = <<>>
    /\ restarts = 0 /\ decide_calls = 0
    /\ index_store = "norow"
    /\ watchlist = [entities |-> {}, ips |-> {}, devices |-> {}]
    /\ index_store' \in IndexStoreStates
    /\ watchlist' \in WatchlistStates
    /\ UNCHANGED <<current_policy, device_accounts, scores_log, position, committed,
                   restarts, decide_calls, decisions_topic, decide_response>>
    /\ UNCHANGED <<auditVars, featureVars, policyVars, ingestVars, ensembleVars, scoreVars,
                 consumerVars,
                 signalVars, psiVars, monitorVars>>

\* startup_event (line 450), POST /policy/reload, GET /policy with no policy.
load_decision_policy ==
    /\ current_policy' = LoadedPolicy(current_policy, index_store)
    /\ current_policy' # current_policy
    /\ UNCHANGED <<index_store, watchlist, device_accounts, scores_log, position, committed,
                   restarts, decide_calls, decisions_topic, decide_response>>
    /\ UNCHANGED <<auditVars, featureVars, policyVars, ingestVars, ensembleVars, scoreVars,
                 consumerVars,
                 signalVars, psiVars, monitorVars>>

\* What arrives on alerts.scores.v1: a ScoreOutput for an event, or
\* something ScoreOutput(**score_data) rejects.
ScoreMessages(event_id) ==
    { [event_id |-> event_id, valid |-> TRUE, scores |-> sc, origin |-> origin] :
        sc \in ScoreRecords, origin \in EventOrigins }
    \cup { [event_id |-> event_id, valid |-> FALSE,
            scores |-> [xgb |-> 0, nn |-> 0, rules |-> 0, ensemble |-> 0, calibrated |-> 0],
            origin |-> NoDecision.event] }

\* The scorer publishes a message for a new event.
ScorePublished ==
    /\ Len(scores_log) < MaxScores
    /\ \E msg \in ScoreMessages(Len(scores_log) + 1) :
         scores_log' = Append(scores_log, msg)
    /\ UNCHANGED <<current_policy, index_store, watchlist, device_accounts, position, committed,
                   restarts, decide_calls, decisions_topic, decide_response>>
    /\ UNCHANGED <<auditVars, featureVars, policyVars, ingestVars, ensembleVars, scoreVars,
                 consumerVars,
                 signalVars, psiVars, monitorVars>>

\* The policy make_decision works with: lines 336-337 load one when the
\* global is None.
PolicyForDecision ==
    IF current_policy = NoPolicy THEN LoadedPolicy(current_policy, index_store)
    ELSE current_policy

\* consume_scores, lines 526-531, with process_score_output, lines 414-443:
\* the next message is taken (the position moves past it), parsed, decided
\* with entity_id "unknown" and no IP or device (lines 421-423), and the
\* decision is sent keyed by that entity_id.  A message that does not parse,
\* or a missing policy (current_policy['config'] on None), raises; the
\* exception is logged and the message is done with.
ConsumeScore ==
    /\ position <= Len(scores_log)
    /\ position' = position + 1
    /\ LET msg == scores_log[position] IN
       \E redis_ok \in BOOLEAN :
         LET policy == PolicyForDecision
             out == make_decision(policy, msg, msg.scores, "unknown", None, None, redis_ok)
         IN  IF ~msg.valid
             THEN UNCHANGED <<current_policy, device_accounts, decisions_topic>>
             ELSE IF policy = NoPolicy
                     \/ ~DecisionOutputAccepts(out.decision.risk, out.decision.action)
             THEN UNCHANGED <<current_policy, device_accounts, decisions_topic>>
             ELSE /\ current_policy' = out.policy
                  /\ device_accounts' = graph_accounts_after("unknown", None, redis_ok)
                  /\ decisions_topic' =
                       Append(decisions_topic, [key |-> "unknown", value |-> out.decision])
    /\ UNCHANGED <<index_store, watchlist, scores_log, committed, restarts, decide_calls, decide_response>>
    /\ UNCHANGED <<auditVars, featureVars, policyVars, ingestVars, ensembleVars, scoreVars,
                 consumerVars,
                 signalVars, psiVars, monitorVars>>

\* enable_auto_commit=True (line 97): the consumer commits its position from
\* time to time, between two messages.
AutoCommit ==
    /\ committed # <<position>>
    /\ committed' = <<position>>
    /\ UNCHANGED <<current_policy, index_store, watchlist, device_accounts, scores_log, position,
                   restarts, decide_calls, decisions_topic, decide_response>>
    /\ UNCHANGED <<auditVars, featureVars, policyVars, ingestVars, ensembleVars, scoreVars,
                 consumerVars,
                 signalVars, psiVars, monitorVars>>

\* The service stops (a crash: nothing is committed on the way out) and
\* starts again: the globals are fresh and the consumer resumes from the
\* committed offset, or from the end of the log when there is none
\* (auto_offset_reset='latest', line 96).
Restart ==
    /\ restarts < MaxRestarts
    /\ restarts' = restarts + 1
    /\ current_policy' = NoPolicy
    /\ position' = IF committed = <<>> THEN Len(scores_log) + 1 ELSE committed[1]
    /\ UNCHANGED <<index_store, watchlist, device_accounts, scores_log, committed, decide_calls,
                   decisions_topic, decide_response>>
    /\ UNCHANGED <<auditVars, featureVars, policyVars, ingestVars, ensembleVars, scoreVars,
                 consumerVars,
                 signalVars, psiVars, monitorVars>>

\* POST /decide, lines 481-502: make_decision with the entity_id of the
\* request and no IP or device; an exception is answered with 500.
decide_sync ==
    /\ decide_calls < MaxDecides
    /\ decide_calls' = decide_calls + 1
    /\ \E sc \in ScoreRecords, origin \in EventOrigins, redis_ok \in BOOLEAN :
         LET policy == PolicyForDecision
             evt == [event_id |-> 0, origin |-> origin]
             out == make_decision(policy, evt, sc, origin.entity_id, None, None, redis_ok)
         IN  IF policy = NoPolicy
                \/ ~DecisionOutputAccepts(out.decision.risk, out.decision.action)
             THEN /\ decide_response' = [NoDecision EXCEPT !.action = "http_500"]
                  /\ UNCHANGED <<current_policy, device_accounts>>
             ELSE /\ current_policy' = out.policy
                  /\ device_accounts' = graph_accounts_after(origin.entity_id, None, redis_ok)
                  /\ decide_response' = out.decision
    /\ UNCHANGED <<index_store, watchlist, scores_log, position, committed, restarts, decisions_topic>>
    /\ UNCHANGED <<auditVars, featureVars, policyVars, ingestVars, ensembleVars, scoreVars,
                 consumerVars,
                 signalVars, psiVars, monitorVars>>

DecisionNext ==
    \/ Provision
    \/ load_decision_policy
    \/ ScorePublished
    \/ ConsumeScore
    \/ AutoCommit
    \/ Restart
    \/ decide_sync

(***************************************************************************)
(* decision-svc/main.py: check_velocity_anomaly and check_graph_anomaly,   *)
(* called on their own (specification SpecSignals).                        *)
(***************************************************************************)
MaxChecks == 2
MaxAccounts == 7

\* The accounts seen on a device, named in the order of their first use.
Accounts == 1..MaxAccounts
account(n) == <<"acct", n>>

NoVelocityCall ==
    [called |-> FALSE, entity_id |-> None, velocity_1h |-> 0, velocity_24h |-> 0,
     redis_ok |-> TRUE, before |-> [h1 |-> <<>>, h24 |-> <<>>], anomaly |-> FALSE]

NoGraphCall ==
    [called |-> FALSE, entity_id |-> None, device_fingerprint |-> None, redis_ok |-> TRUE,
     before |-> {}, anomaly |-> FALSE]

\* acct1 averages 2 an hour and 15 a day, acct2 has a daily average only,
\* acct3 has no key.
SignalInit ==
    /\ velocity_patterns =
           [e \in VelocityEntities |->
               IF e = "acct1" THEN [h1 |-> <<2 * VelocityScale>>, h24 |-> <<15 * VelocityScale>>]
               ELSE IF e = "acct2" THEN [h1 |-> <<>>, h24 |-> <<20 * VelocityScale>>]
               ELSE [h1 |-> <<>>, h24 |-> <<>>]]
    /\ velocity_call = NoVelocityCall
    /\ graph_call = NoGraphCall
    /\ checks = 0

\* A call of check_velocity_anomaly(entity_id, velocity_1h, velocity_24h).
VelocityCheck ==
    /\ checks < MaxChecks
    /\ \E entity_id \in VelocityEntities, velocity_1h \in {2, 9}, velocity_24h \in {20, 50},
          redis_ok \in BOOLEAN :
          /\ velocity_patterns' =
                 velocity_patterns_after(entity_id, velocity_1h, velocity_24h, redis_ok)
          /\ velocity_call' =
                 [called |-> TRUE, entity_id |-> entity_id, velocity_1h |-> velocity_1h,
                  velocity_24h |-> velocity_24h, redis_ok |-> redis_ok,
                  before |-> velocity_pattern(entity_id),
                  anomaly |-> check_velocity_anomaly(entity_id, velocity_1h, velocity_24h,
                                                     redis_ok)]
    /\ checks' = checks + 1
    /\ UNCHANGED <<graph_call>>
    /\ UNCHANGED <<auditVars, featureVars, policyVars, decisionVars, ingestVars, ensembleVars,
                   scoreVars, consumerVars, psiVars, monitorVars>>

\* A call of check_graph_anomaly(entity_id, device_fingerprint): by an
\* account the device has seen, or by the next new one.
GraphCheck ==
    /\ \E n \in Accounts, device_fingerprint \in Devices \cup {None}, redis_ok \in BOOLEAN :
          /\ \A k \in 1..(n - 1) : account(k) \in device_accounts["dev1"]
          /\ device_accounts' = graph_accounts_after(account(n), device_fingerprint, redis_ok)
          /\ graph_call' =
                 [called |-> TRUE, entity_id |-> account(n),
                  device_fingerprint |-> device_fingerprint, redis_ok |-> redis_ok,
                  before |-> IF device_fingerprint = None THEN {}
                             ELSE device_accounts[device_fingerprint],
                  anomaly |-> check_graph_anomaly(account(n), device_fingerprint, redis_ok)]
    /\ UNCHANGED <<velocity_patterns, velocity_call, checks>>
    /\ UNCHANGED <<current_policy, index_store, watchlist, scores_log, position,
                   committed, restarts, decide_calls, decisions_topic, decide_response>>
    /\ UNCHANGED <<auditVars, featureVars, policyVars, ingestVars, ensembleVars,
                   scoreVars, consumerVars, psiVars, monitorVars>>

SignalNext ==
    \/ VelocityCheck
    \/ GraphCheck

(***************************************************************************)
(* Claims on decision-svc (specification SpecDecision).                    *)
(***************************************************************************)
\* The decisions made so far: those published and the last /decide answer.
Published == {decisions_topic[i].value : i \in 1..Len(decisions_topic)}
Decisions ==
    Published \cup (IF decide_response.action \in {None, "http_500"} THEN {}
                    ELSE {decide_response})

\* The watchlist labels that apply to the event a decision is about.
TrueHits(d) ==
    (IF d.event.entity_id \in watchlist.entities THEN {"entity_watchlist"} ELSE {})
    \cup (IF d.event.ip_address \in watchlist.ips THEN {"ip_watchlist"} ELSE {})
    \cup (IF d.event.device_fingerprint \in watchlist.devices THEN {"device_watchlist"} ELSE {})

Labels(reasons) == {reasons[i] : i \in 1..Len(reasons)}

\* C3: at most one decision carrying a given event identifier is published
\* to alerts.decisions.v1, redelivery after a restart included.
C3_OneDecisionPerEvent ==
    \A i, j \in 1..Len(decisions_topic) :
        decisions_topic[i].value.event_id = decisions_topic[j].value.event_id => i = j

\* C8: for an event on a trusted channel with calibrated < 0.70, velocity_1h
\* < 8, ip_risk < 0.8 and no watchlist or anomaly signal, the decision has
\* action 'allow', no reasons and no case_id.
C8_LowRiskAllow ==
    \A d \in Decisions :
        (/\ d.event.channel = "mobile"
         /\ d.risk < 70
         /\ d.event.velocity_1h < 8
         /\ d.event.ip_risk < 80
         /\ TrueHits(d) = {}
         /\ ~d.velocity_anomaly
         /\ ~d.graph_anomaly)
        => /\ d.action = "allow"
           /\ d.reasons = <<>>
           /\ d.case_id = None

\* C9: whatever the policy state, a decision on a score record with
\* calibrated >= 0.90 has action 'block'.
C9_HighScoreBlocked ==
    \A d \in Decisions : d.risk >= 90 => d.action = "block"

\* C10: whenever the event's entity, IP or device is on a watchlist, the
\* action is 'block' if calibrated >= 0.8 and 'hold' otherwise, and the
\* reasons contain the label of every list that was hit.
C10_WatchlistOverride ==
    \A d \in Decisions :
        TrueHits(d) # {} =>
            /\ d.action = (IF d.risk >= 80 THEN "block" ELSE "hold")
            /\ TrueHits(d) \subseteq Labels(d.reasons)

\* C11: in every decision make_decision produces, whatever policy is
\* loaded, case_id is null exactly when the action is 'allow'.
C11_CaseCoupling ==
    \A d \in Decisions : (d.case_id = None) <=> (d.action = "allow")

\* C12: every DecisionOutput constructed or emitted has its action in
\* {allow, hold, block, escalate}, the action of a loaded policy's rule
\* group included.
C12_ActionDomain ==
    \A d \in Decisions : d.action \in {"allow", "hold", "block", "escalate"}

\* What a condition of a rule group says: a conjunction of a band on the
\* calibrated score and of the booleans it names.
PredicatesHold(condition, d) ==
    /\ (condition.calibrated_score # <<>> =>
          LET score_condition == condition.calibrated_score[1] IN
          /\ (score_condition.gte # <<>> => d.risk >= score_condition.gte[1])
          /\ (score_condition.lt # <<>> => d.risk < score_condition.lt[1]))
    /\ (condition.watchlist_hit => d.watchlist_hits # <<>>)
    /\ (condition.conflicting_signals => ConflictingSignals(d.scores))
    /\ (condition.velocity_normal => ~d.velocity_anomaly)

GroupHolds(group, d) ==
    /\ group.present
    /\ \E i \in 1..Len(group.conditions) : PredicatesHold(group.conditions[i], d)

FirstHoldingGroup(policy, d) ==
    IF GroupHolds(policy.rules.block, d) THEN "block"
    ELSE IF GroupHolds(policy.rules.hold, d) THEN "hold"
    ELSE IF GroupHolds(policy.rules.allow, d) THEN "allow"
    ELSE "none"

\* C13: the rule loop of make_decision takes the action of the first of
\* block, hold, allow that has a condition whose predicates all hold, and
\* 'allow' with no reasons when there is none.
C13_SeverityOrder ==
    \A d \in Decisions :
        LET policy == LoadedPolicy(NoPolicy, index_store)
            g == FirstHoldingGroup(policy, d)
        IN  /\ d.group = g
            /\ d.rule_action = (IF g = "none" THEN "allow" ELSE policy.rules[g].action)
            /\ (g = "none" => d.rule_reasons = <<>>)

(***************************************************************************)
(* ingest-svc/main.py: POST /txn and POST /claim.  A payload is the JSON   *)
(* body; a key that may be missing is <<>> when missing and <<v>> when     *)
(* present.  Amounts are in hundredths.                                    *)
(***************************************************************************)
MaxRequests == 2      \* requests to the ingest service

\* str(uuid.uuid4()) of the n-th request, and the strings uuid.UUID accepts.
ingest_uuid4(n) == ToString(n)
UuidStrings == {"e1"} \cup {ingest_uuid4(n) : n \in 0..(MaxRequests + 1)}

UpperCase == {"U", "S", "D", "X"}

\* re.match(r"^[A-Z]{3}$", v), events.py line 17: three upper-case letters
\* from the start, and `$` matches at the end of the string or just before
\* a newline that ends it.
CurrencyMatches(v) ==
    /\ Len(v) >= 3
    /\ \A i \in 1..3 : v[i] \in UpperCase
    /\ \/ Len(v) = 3
       \/ Len(v) = 4 /\ v[4] = "\n"

\* validate_channel, events.py lines 27-32.
allowed_channels == {"web", "mobile", "atm", "pos", "phone", "api"}
\* validate_claim_type, events.py lines 55-60.
allowed_types == {"auto", "home", "health", "life", "travel", "other"}

\* TransactionEvent(**event_data), events.py lines 10-38: TRUE when the
\* model validates (event_id, timestamp, amount, currency and channel are
\* required; entity_id is present in every payload modelled).
TransactionEvent(event_data) ==
    /\ event_data.event_id # <<>> /\ event_data.event_id[1] \in UuidStrings
    /\ event_data.timestamp # <<>>
    /\ event_data.amount >= 0
    /\ CurrencyMatches(event_data.currency)
    /\ event_data.channel \in allowed_channels

\* ClaimEvent(**event_data), events.py lines 41-66.
ClaimEvent(event_data) ==
    /\ event_data.event_id # <<>> /\ event_data.event_id[1] \in UuidStrings
    /\ event_data.timestamp # <<>>
    /\ event_data.claim_amount >= 0
    /\ event_data.claim_type \in allowed_types

\* The payloads sent to POST /txn.
TxnPayloads ==
    [event_id : {<<>>, <<"e1">>, <<"not-a-uuid">>},
     entity_id : {"acct1"},
     timestamp : {<<>>, <<"2024-01-01T00:00:00">>},
     amount : {0 - 10050, 0, 10050},
     currency : {<<"U", "S", "D">>, <<"u", "s", "d">>, <<"U", "S", "D", "X">>,
                 <<"U", "S", "D", "\n">>},
     channel : {"web", "fax"}]

\* The payloads sent to POST /claim.
ClaimPayloads ==
    [event_id : {<<>>, <<"e1">>},
     entity_id : {"acct1"},
     timestamp : {<<>>, <<"2024-01-01T00:00:00">>},
     claim_amount : {0 - 10050, 10050},
     claim_type : {"auto", "fraud"}]

\* Lines 86-87 / 130-131: an event_id is added when the key is missing.
WithEventId(event_data) ==
    IF event_data.event_id = <<>>
    THEN [event_data EXCEPT !.event_id = <<ingest_uuid4(ingest_requests)>>]
    ELSE event_data

\* Lines 93-94 / 137-138: model.dict() with the timestamp turned into its
\* ISO string; event_id stays the uuid.UUID the model parsed.  The fields
\* of a claim are carried in `body`.
EventDict(event_data) ==
    [event_id |-> [type |-> "UUID", value |-> event_data.event_id[1]],
     entity_id |-> event_data.entity_id,
     timestamp |-> event_data.timestamp[1],
     body |-> event_data]

NoRequest == [endpoint |-> None, payload |-> <<>>]
NoResponse == [status |-> 0, event_id |-> None, sent |-> FALSE]

IngestInit ==
    /\ ingest_request = NoRequest
    /\ ingest_response = NoResponse
    /\ producer_records = <<>>
    /\ ingest_requests = 0

\* The handler body shared by lines 81-123 and 125-167: add an event_id,
\* validate (ValidationError: 422), build the dict and hand it to
\* producer.send, whose value_serializer is json.dumps (line 50) and raises
\* TypeError on a value it cannot serialise (any other exception: 500);
\* then answer success with the dict's event_id.
Ingest(endpoint, topic, event_data, valid) ==
    LET filled == WithEventId(event_data)
        event_dict == EventDict(filled)
    IN  /\ ingest_requests < MaxRequests
        /\ ingest_requests' = ingest_requests + 1
        /\ ingest_request' = [endpoint |-> endpoint, payload |-> event_data]
        /\ IF ~valid
           THEN /\ ingest_response' = [status |-> 422, event_id |-> None, sent |-> FALSE]
                /\ UNCHANGED producer_records
           ELSE IF ~JsonSerializable(event_dict)
           THEN /\ ingest_response' = [status |-> 500, event_id |-> None, sent |-> FALSE]
                /\ UNCHANGED producer_records
           ELSE /\ producer_records' =
                     Append(producer_records,
                            [topic |-> topic, key |-> event_dict.entity_id,
                             value |-> event_dict])
                /\ ingest_response' =
                     [status |-> 200, event_id |-> event_dict.event_id.value, sent |-> TRUE]
        /\ UNCHANGED <<auditVars, featureVars, policyVars, decisionVars, ensembleVars, scoreVars,
                 consumerVars,
                 signalVars, psiVars, monitorVars>>

\* POST /txn, lines 81-123.
ingest_transaction ==
    \E event_data \in TxnPayloads :
        Ingest("/txn", "events.txns.v1", event_data,
               TransactionEvent(WithEventId(event_data)))

\* POST /claim, lines 125-167.
ingest_claim ==
    \E event_data \in ClaimPayloads :
        Ingest("/claim", "events.claims.v1", event_data,
               ClaimEvent(WithEventId(event_data)))

IngestNext ==
    \/ ingest_transaction
    \/ ingest_claim

(***************************************************************************)
(* Claims on ingest-svc (specification SpecIngest).                        *)
(***************************************************************************)
ThreeUpperCaseLetters(v) == Len(v) = 3 /\ \A i \in 1..3 : v[i] \in UpperCase

\* The last request is one of the malformed payloads of C17.
MalformedRequest ==
    \/ /\ ingest_request.endpoint = "/txn"
       /\ \/ ingest_request.payload.amount < 0
          \/ ~ThreeUpperCaseLetters(ingest_request.payload.currency)
          \/ ingest_request.payload.channel \notin allowed_channels
    \/ /\ ingest_request.endpoint = "/claim"
       /\ ingest_request.payload.claim_type \notin allowed_types

\* C17: a /txn payload with a negative amount, a currency that is not three
\* upper-case letters or a channel outside the allowed set, and a /claim
\* payload with a claim_type outside its set, is answered with 422 and
\* nothing is handed to the producer.
C17_ValidationFailurePublishesNothing ==
    MalformedRequest =>
        /\ ingest_response.status = 422
        /\ ~ingest_response.sent

\* The last request is valid but for a missing event_id and/or timestamp.
IncompleteRequest ==
    /\ ingest_request.endpoint \in {"/txn", "/claim"}
    /\ ~MalformedRequest
    /\ ingest_request.payload.event_id \in {<<>>, <<"e1">>}
    /\ ingest_request.endpoint = "/claim" => ingest_request.payload.claim_amount >= 0
    /\ \/ ingest_request.payload.event_id = <<>>
       \/ ingest_request.payload.timestamp = <<>>

\* C18: a payload that is valid except that it has no event_id and/or no
\* timestamp is accepted and published, and the event_id of the response
\* is the one of the published message.
C18_IngestFillsIn ==
    IncompleteRequest =>
        /\ ingest_response.status = 200
        /\ producer_records # <<>>
        /\ producer_records[Len(producer_records)].value.event_id.value
             = ingest_response.event_id

(***************************************************************************)
(* Claims on feature-svc (specification SpecFeature).                      *)
(***************************************************************************)
Undisturbed(e) == ~overlapped[e] /\ ~disturbed[e]

C5_InterleavedRunsDiffer ==
    \A i, j \in 1..Len(feature_vectors) :
        (/\ i < j
         /\ feature_vectors[i].entity_id = feature_vectors[j].entity_id
         /\ ~disturbed[feature_vectors[i].entity_id])
        => feature_vectors[i].velocity_1h # feature_vectors[j].velocity_1h

\* The valid events whose process_event run is over.
FinishedRuns ==
    Cardinality({<<e, k>> : e \in Entities, k \in 1..MaxEvents} \cap
                {<<e, k>> \in Entities \X (1..MaxEvents) : k <= started[e]})
    - Cardinality({w \in Workers : pc[w] # "idle"})

\* C14: every valid event consumed, a failed store operation during its
\* processing included, has exactly one feature vector on
\* features.online.v1 once process_event is done with it.
C14_NoEventDropped ==
    /\ Len(features_topic) = FinishedRuns
    /\ \A i, j \in 1..Len(features_topic) :
          features_topic[i].value.event_id = features_topic[j].value.event_id => i = j

\* C15: once the first event of an entity has set its usual_location, no
\* later process_event run writes that key, key expiries included: from
\* then on a step either leaves the stored value alone or is the expiry.
C15_UsualLocationSetOnce ==
    [][\A e \in Entities :
          usual_initialised[e] =>
              \/ usual_location'[e] = usual_location[e]
              \/ usual_location'[e] = <<>>]_vars

(***************************************************************************)
(* score-svc.  Two scorers ship with the service: main.py (the consumer of *)
(* features.online.v1 and its POST /score) and the package app (its own    *)
(* POST /score, with weights taken from the ENSEMBLE_WEIGHTS setting).     *)
(* In this part risks stay in hundredths and every score is in             *)
(* ten-thousandths (0.35 is 3500).                                         *)
(***************************************************************************)
MaxVectors == 2       \* messages taken from features.online.v1

Min2(a, b) == IF a <= b THEN a ELSE b

\* 1 / (1 + exp(-5 (s - 0.5))), main.py line 330 and app/models.py line 49:
\* the curve at s = -1.5, -1.4, ..., 3.0, linear in between and flat
\* outside; within 0.003 of the curve everywhere.
CalibrationTable ==
    << 0, 1, 1, 2, 3, 6, 9, 15, 25, 41, 67, 110, 180, 293, 474, 759, 1192,
       1824, 2689, 3775, 5000, 6225, 7311, 8176, 8808, 9241, 9526, 9707,
       9820, 9890, 9933, 9959, 9975, 9985, 9991, 9994, 9997, 9998, 9999,
       9999, 10000, 10000, 10000, 10000, 10000, 10000 >>

calibrate_score(ensemble_score) ==
    LET lo == -15000
        hi == 30000
        k == (ensemble_score - lo) \div 1000
        r == (ensemble_score - lo) % 1000
    IN  IF ensemble_score <= lo THEN CalibrationTable[1]
        ELSE IF ensemble_score >= hi THEN CalibrationTable[Len(CalibrationTable)]
        ELSE CalibrationTable[k + 1]
             + ((CalibrationTable[k + 2] - CalibrationTable[k + 1]) * r + 500) \div 1000

\* ---- score-svc/app ----

\* app/models.py lines 6-9 and 12-15: the two stand-in models.
XGBModel_predict_proba(feats) ==
    Min2(10000, 1500 + 50 * feats.ip_risk + 100 * feats.velocity_1h)

NNModel_predict_proba(feats) ==
    Min2(10000, 1000 + 35 * feats.merchant_risk + feats.geo_distance_km)

\* app/models.py lines 17-22.
rules_score(feats) ==
    Min2(10000, (IF feats.velocity_1h >= 8 THEN 3500 ELSE 0)
                + (IF feats.ip_risk >= 80 THEN 3500 ELSE 0)
                + (IF feats.amount >= 2000 THEN 2000 ELSE 0))

\* float(x) for the texts that occur in the settings modelled (hundredths);
\* <<>> when float raises ValueError.
ParseFloat(text) ==
    CASE text = "0.5" -> <<50>>
      [] text = "0.4" -> <<40>>
      [] text = "0.3" -> <<30>>
      [] text = "0.2" -> <<20>>
      [] text = "0.1" -> <<10>>
      [] text = "1" -> <<100>>
      [] text = "-0.5" -> <<-50>>
      [] OTHER -> <<>>

\* Values of the ENSEMBLE_WEIGHTS setting, split at the commas.  The first
\* is the default of app/config.py line 6.
WeightSettings ==
    { <<"0.5", "0.4", "0.1">>,
      <<"0.5", "0.3", "0.2">>,
      <<"1", "1", "1">>,
      <<"-0.5", "1", "0.5">>,
      <<"0.5", "0.5">>,
      <<"0.5", "0.3", "0.2", "0.1">>,
      <<"0.5", "half", "0.1">> }

NoModel == [w |-> <<>>]

\* app/main.py lines 6-7 with Ensemble.__init__, app/models.py lines 34-37:
\* every part goes through float (ValueError when one is not a number), the
\* list is spread over (w_xgb=0.5, w_nn=0.4, w_rules=0.1): missing places
\* keep their defaults, a fourth value is a TypeError.  An exception here is
\* raised at import, and the service does not come up.
Ensemble(setting) ==
    LET defaults == <<50, 40, 10>>
    IN  IF \E i \in 1..Len(setting) : ParseFloat(setting[i]) = <<>> THEN NoModel
        ELSE IF Len(setting) > 3 THEN NoModel
        ELSE [w |-> [i \in 1..3 |-> IF i <= Len(setting) THEN ParseFloat(setting[i])[1]
                                    ELSE defaults[i]]]

\* round(x, 4) of a value given in millionths; ties are rounded up (the
\* inputs modelled produce none).
Round4(x) == (x + 50) \div 100

\* Ensemble.score, app/models.py lines 43-57, without 'explain'; the
\* calibrated score is read off the curve at the rounded ensemble score.
Ensemble_score(w, feats) ==
    LET sx == XGBModel_predict_proba(feats)
        sn == NNModel_predict_proba(feats)
        sr == rules_score(feats)
        raw == w[1] * sx + w[2] * sn + w[3] * sr
    IN  [xgb |-> sx, nn |-> sn, rules |-> sr,
         ensemble |-> Round4(raw),
         calibrated |-> calibrate_score(Round4(raw))]

\* Feature vectors POST /score of the app accepts: app/schemas.py lines 4-16
\* type the fields and bound none of them.  ip_risk and merchant_risk are
\* in hundredths, geo_distance_km (a float) in tenths of a kilometre.
AppFeatureInputs ==
    { [amount |-> 1500, velocity_1h |-> 5, ip_risk |-> 60, geo_distance_km |-> 2000,
       merchant_risk |-> 30],
      [amount |-> 50, velocity_1h |-> 0, ip_risk |-> 0, geo_distance_km |-> 0,
       merchant_risk |-> 0],
      [amount |-> 2000, velocity_1h |-> 8, ip_risk |-> 80, geo_distance_km |-> 6000,
       merchant_risk |-> 70],
      [amount |-> 12000, velocity_1h |-> 11, ip_risk |-> 90, geo_distance_km |-> 12000,
       merchant_risk |-> 80],
      [amount |-> 1999, velocity_1h |-> 7, ip_risk |-> 79, geo_distance_km |-> 100,
       merchant_risk |-> 100],
      [amount |-> 300, velocity_1h |-> 90, ip_risk |-> 100, geo_distance_km |-> 0,
       merchant_risk |-> 10],
      [amount |-> 2000, velocity_1h |-> 35, ip_risk |-> 100, geo_distance_km |-> 5000,
       merchant_risk |-> 50],
      [amount |-> 2000, velocity_1h |-> 35, ip_risk |-> 100, geo_distance_km |-> 5002,
       merchant_risk |-> 50] }

NoScores == [xgb |-> 0, nn |-> 0, rules |-> 0, ensemble |-> 0, calibrated |-> 0]
NoFeatures == [amount |-> 0, velocity_1h |-> 0, ip_risk |-> 0, geo_distance_km |-> 0,
               merchant_risk |-> 0]
NoScoreResponse == [answered |-> FALSE, scores |-> NoScores, w |-> <<>>, feats |-> NoFeatures]

EnsembleInit ==
    /\ model = Ensemble(<<"0.5", "0.4", "0.1">>)
    /\ score_response = NoScoreResponse

\* The service is started with a value of ENSEMBLE_WEIGHTS.
Deploy ==
    /\ \E setting \in WeightSettings : model' = Ensemble(setting)
    /\ model' # model
    /\ UNCHANGED score_response
    /\ UNCHANGED <<auditVars, featureVars, policyVars, decisionVars, ingestVars, scoreVars,
                 consumerVars,
                 signalVars, psiVars, monitorVars>>

\* POST /score, app/main.py lines 15-25, of a service that came up.  The response also records the
\* weights and the features it was computed from.
score ==
    /\ model # NoModel
    /\ \E feats \in AppFeatureInputs :
         score_response' = [answered |-> TRUE, scores |-> Ensemble_score(model.w, feats),
                            w |-> model.w, feats |-> feats]
    /\ UNCHANGED model
    /\ UNCHANGED <<auditVars, featureVars, policyVars, decisionVars, ingestVars, scoreVars,
                 consumerVars,
                 signalVars, psiVars, monitorVars>>

EnsembleNext == Deploy \/ score

\* ---- score-svc/main.py ----

\* compute_rule_score, lines 213-243, with >= where the code has >.
compute_rule_score_ge(feature_vector) ==
    Min2((IF feature_vector.amount # <<>> /\ feature_vector.amount[1] >= 10000 THEN 3000 ELSE 0)
         + (IF feature_vector.velocity_1h >= 10 THEN 4000
            ELSE IF feature_vector.velocity_1h >= 5 THEN 2000 ELSE 0)
         + (IF feature_vector.ip_risk >= 80 THEN 3000
            ELSE IF feature_vector.ip_risk >= 50 THEN 1000 ELSE 0)
         + (IF feature_vector.geo_distance_km >= 1000 THEN 2000
            ELSE IF feature_vector.geo_distance_km >= 500 THEN 1000 ELSE 0)
         + (IF feature_vector.merchant_risk >= 70 THEN 2000 ELSE 0),
         10000)

\* compute_rule_score, lines 213-243.  amount is Optional (<<>> is None):
\* None and 0 are falsy and add nothing.
compute_rule_score(feature_vector) ==
    LET score0 == IF feature_vector.amount # <<>> /\ feature_vector.amount[1] # 0
                     /\ feature_vector.amount[1] > 10000 THEN 3000 ELSE 0
        score1 == score0 + (IF feature_vector.velocity_1h > 10 THEN 4000
                            ELSE IF feature_vector.velocity_1h > 5 THEN 2000 ELSE 0)
        score2 == score1 + (IF feature_vector.ip_risk > 80 THEN 3000
                            ELSE IF feature_vector.ip_risk > 50 THEN 1000 ELSE 0)
        score3 == score2 + (IF feature_vector.geo_distance_km > 1000 THEN 2000
                            ELSE IF feature_vector.geo_distance_km > 500 THEN 1000 ELSE 0)
        score4 == score3 + (IF feature_vector.merchant_risk > 70 THEN 2000 ELSE 0)
    IN  Min2(score4, 10000)

\* What a model that is in place does with a feature row: a probability
\* (predict_proba column 1, or the sigmoid output of FraudNN, lines 75-76),
\* or an exception (Raised).
Raised == -1
ModelOutcomes == {0, 10000, Raised}

\* compute_xgb_score, lines 246-256.
compute_xgb_score(xgb, outcome) ==
    IF xgb = None THEN 1000
    ELSE IF outcome = Raised THEN 1000
    ELSE outcome

\* compute_nn_score, lines 259-278 (nn_model and nn_scaler are set together
\* by load_models and by create_dummy_models).
compute_nn_score(nn, outcome) ==
    IF nn = None THEN 1000
    ELSE IF outcome = Raised THEN 1000
    ELSE outcome

\* compute_ensemble_score, lines 308-323: the weights are fixed in the code.
compute_ensemble_score(xgb_score, nn_score, rules_score_) ==
    (50 * xgb_score + 30 * nn_score + 20 * rules_score_) \div 100

\* ModelScores, scores.py lines 9-16: every score has ge=0, le=1.
ModelScoresAccepts(scores) ==
    \A k \in {"xgb", "nn", "rules", "ensemble", "calibrated"} :
        scores[k] >= 0 /\ scores[k] <= 10000

\* score_feature_vector, lines 334-382: the scores, and whether ScoreOutput
\* could be built (model_version is a required str, the scores are bounded).
score_feature_vector(feature_vector, xgb_outcome, nn_outcome) ==
    LET xgb_score == compute_xgb_score(xgb_model, xgb_outcome)
        nn_score == compute_nn_score(nn_model, nn_outcome)
        rules_score_ == compute_rule_score(feature_vector)
        ensemble_score == compute_ensemble_score(xgb_score, nn_score, rules_score_)
        scores == [xgb |-> xgb_score, nn |-> nn_score, rules |-> rules_score_,
                   ensemble |-> ensemble_score,
                   calibrated |-> calibrate_score(ensemble_score)]
    IN  [built |-> ModelScoresAccepts(scores) /\ model_version # None,
         event_id |-> feature_vector.event_id,
         scores |-> scores,
         model_version |-> model_version,
         features |-> feature_vector,
         models |-> [xgb |-> xgb_model, nn |-> nn_model]]

\* The features the rules look at, one threshold at a time: a vector on
\* every lower threshold, then each field in turn just past its lower and
\* upper threshold, no amount, and all fields high.
BaseFeatures ==
    [amount |-> <<10000>>, velocity_1h |-> 5, ip_risk |-> 50, geo_distance_km |-> 500,
     merchant_risk |-> 70]
FeatureInputs ==
    { BaseFeatures,
      [BaseFeatures EXCEPT !.amount = <<>>],
      [BaseFeatures EXCEPT !.amount = <<10001>>],
      [BaseFeatures EXCEPT !.velocity_1h = 6],
      [BaseFeatures EXCEPT !.velocity_1h = 10],
      [BaseFeatures EXCEPT !.velocity_1h = 11],
      [BaseFeatures EXCEPT !.ip_risk = 51],
      [BaseFeatures EXCEPT !.ip_risk = 80],
      [BaseFeatures EXCEPT !.ip_risk = 81],
      [BaseFeatures EXCEPT !.geo_distance_km = 501],
      [BaseFeatures EXCEPT !.geo_distance_km = 1000],
      [BaseFeatures EXCEPT !.geo_distance_km = 1001],
      [BaseFeatures EXCEPT !.merchant_risk = 71],
      [amount |-> <<12000>>, velocity_1h |-> 11, ip_risk |-> 90, geo_distance_km |-> 1200,
       merchant_risk |-> 80] }

\* FeatureVector, features.py lines 28-50: the bounds of the fields used.
FeatureVectorAccepts(d) ==
    /\ d.velocity_1h >= 0
    /\ d.ip_risk >= 0 /\ d.ip_risk <= 100
    /\ d.geo_distance_km >= 0
    /\ d.merchant_risk >= 0 /\ d.merchant_risk <= 100

\* What arrives as feature_data: a feature vector of event E1 of acct1 or
\* of event E2 of acct2, or one FeatureVector(**feature_data) rejects
\* (ip_risk above 1).
FeatureMessages ==
    { [event_id |-> "E1", entity_id |-> "acct1", amount |-> f.amount,
       velocity_1h |-> f.velocity_1h, ip_risk |-> f.ip_risk,
       geo_distance_km |-> f.geo_distance_km, merchant_risk |-> f.merchant_risk] :
        f \in FeatureInputs }
    \cup { [event_id |-> "E2", entity_id |-> "acct2", amount |-> BaseFeatures.amount,
            velocity_1h |-> BaseFeatures.velocity_1h, ip_risk |-> BaseFeatures.ip_risk,
            geo_distance_km |-> BaseFeatures.geo_distance_km,
            merchant_risk |-> BaseFeatures.merchant_risk] }
    \cup { [event_id |-> "E1", entity_id |-> "acct1", amount |-> <<50>>, velocity_1h |-> 1,
            ip_risk |-> 150, geo_distance_km |-> 0, merchant_risk |-> 0] }

NoScoreOutput ==
    [built |-> FALSE, event_id |-> None, scores |-> NoScores, model_version |-> None,
     features |-> [event_id |-> None, entity_id |-> None, amount |-> <<>>, velocity_1h |-> 0,
                   ip_risk |-> 0, geo_distance_km |-> 0, merchant_risk |-> 0],
     models |-> [xgb |-> None, nn |-> None]]

\* Lines 48-52: the globals before startup.
ScoreInit ==
    /\ xgb_model = None
    /\ nn_model = None
    /\ model_version = None
    /\ score_output = NoScoreOutput
    /\ vectors_taken = 0
    /\ scores_topic = <<>>

\* create_dummy_models, lines 140-164.
create_dummy_models ==
    /\ xgb_model' = "dummy"
    /\ nn_model' = "dummy"
    /\ model_version' = "dummy_models_v1"

\* load_models, lines 84-137, run by startup_event: a model is loaded when
\* its files are there, nothing is done about one whose files are not, the
\* version is set to the same text either way; any exception on the way
\* leads to create_dummy_models.
load_models ==
    /\ model_version = None
    /\ \E xgb_files \in BOOLEAN, nn_files \in BOOLEAN, raises \in BOOLEAN :
         IF raises /\ (xgb_files \/ nn_files)
         THEN create_dummy_models
         ELSE /\ ~raises
              /\ xgb_model' = IF xgb_files THEN "loaded" ELSE xgb_model
              /\ nn_model' = IF nn_files THEN "loaded" ELSE nn_model
              /\ model_version' = "2025_01_15_xgb_01_nn_01"
    /\ UNCHANGED <<score_output, vectors_taken, scores_topic>>
    /\ UNCHANGED <<auditVars, featureVars, policyVars, decisionVars, ingestVars, ensembleVars,
                 consumerVars,
                 signalVars, psiVars, monitorVars>>

\* consume_features, lines 463-474, with process_feature_vector, lines
\* 385-410: the message is parsed and scored and the score dict is sent
\* with the entity as key; any exception is logged and the message is done
\* with.  The consumer thread is started before startup_event runs (lines
\* 482-488), so a message can be taken before load_models.
process_feature_vector ==
    /\ vectors_taken < MaxVectors
    /\ vectors_taken' = vectors_taken + 1
    /\ \E feature_data \in FeatureMessages, xgb_outcome \in ModelOutcomes,
          nn_outcome \in ModelOutcomes :
         IF ~FeatureVectorAccepts(feature_data)
         THEN UNCHANGED <<score_output, scores_topic>>
         ELSE LET out == score_feature_vector(feature_data, xgb_outcome, nn_outcome) IN
              /\ score_output' = out
              /\ scores_topic' =
                   IF out.built
                   THEN Append(scores_topic, [key |-> feature_data.entity_id,
                                              event_id |-> out.event_id])
                   ELSE scores_topic
    /\ UNCHANGED <<xgb_model, nn_model, model_version>>
    /\ UNCHANGED <<auditVars, featureVars, policyVars, decisionVars, ingestVars, ensembleVars,
                 consumerVars,
                 signalVars, psiVars, monitorVars>>

\* POST /score, lines 439-460: the same scoring, answered instead of sent
\* (500 when anything raised).  Requests are served once startup is done.
score_sync ==
    /\ model_version # None
    /\ \E feature_data \in FeatureMessages, xgb_outcome \in ModelOutcomes,
          nn_outcome \in ModelOutcomes :
         /\ FeatureVectorAccepts(feature_data)
         /\ score_output' = score_feature_vector(feature_data, xgb_outcome, nn_outcome)
    /\ UNCHANGED <<xgb_model, nn_model, model_version, vectors_taken, scores_topic>>
    /\ UNCHANGED <<auditVars, featureVars, policyVars, decisionVars, ingestVars, ensembleVars,
                 consumerVars,
                 signalVars, psiVars, monitorVars>>

ScoreNext ==
    \/ load_models
    \/ process_feature_vector
    \/ score_sync


(***************************************************************************)
(* The consumer loop, as feature-svc runs it (get_kafka_consumer, lines    *)
(* 65-79, consume_events, lines 377-388); score-svc and decision-svc run   *)
(* the same loop with the same settings.  One partition; its messages are  *)
(* named by their offsets 1, 2, ...                                        *)
(***************************************************************************)
MaxLog == 3           \* messages on the partition
MaxStops == 2         \* times the worker stops and is started again

Offsets == 1..MaxLog

ConsumerInit ==
    /\ log_end = 0
    /\ next_offset = 1
    /\ group_offset = <<>>
    /\ handling = 0
    /\ attempts = [o \in Offsets |-> 0]
    /\ delivered = {}
    /\ interrupted = {}
    /\ stops = 0

\* A producer appends a message.
Produce ==
    /\ log_end < MaxLog
    /\ log_end' = log_end + 1
    /\ UNCHANGED <<next_offset, group_offset, handling, attempts, delivered, interrupted, stops>>
    /\ UNCHANGED <<auditVars, featureVars, policyVars, decisionVars, ingestVars, ensembleVars,
                 scoreVars,
                 signalVars, psiVars, monitorVars>>

\* `for message in consumer` hands out the next message (line 382); the
\* consumer's position is past a message once it is handed out.
TakeMessage ==
    /\ handling = 0
    /\ next_offset <= log_end
    /\ handling' = next_offset
    /\ next_offset' = next_offset + 1
    /\ delivered' = delivered \cup {next_offset}
    /\ UNCHANGED <<log_end, group_offset, attempts, interrupted, stops>>
    /\ UNCHANGED <<auditVars, featureVars, policyVars, decisionVars, ingestVars, ensembleVars,
                 scoreVars,
                 signalVars, psiVars, monitorVars>>

\* Lines 383-388: process_event returned, or raised and was logged.
FinishMessage ==
    /\ handling # 0
    /\ attempts' = [attempts EXCEPT ![handling] = Min2(@ + 1, 2)]
    /\ handling' = 0
    /\ UNCHANGED <<log_end, next_offset, group_offset, delivered, interrupted, stops>>
    /\ UNCHANGED <<auditVars, featureVars, policyVars, decisionVars, ingestVars, ensembleVars,
                 scoreVars,
                 signalVars, psiVars, monitorVars>>

\* enable_auto_commit=True (line 77): the position is committed from inside
\* the consumer's poll, which the loop reaches between two messages.
AutoCommitPosition ==
    /\ handling = 0
    /\ group_offset # <<next_offset>>
    /\ group_offset' = <<next_offset>>
    /\ UNCHANGED <<log_end, next_offset, handling, attempts, delivered, interrupted, stops>>
    /\ UNCHANGED <<auditVars, featureVars, policyVars, decisionVars, ingestVars, ensembleVars,
                 scoreVars,
                 signalVars, psiVars, monitorVars>>

\* Where a started consumer begins: the group's committed offset, or the end
\* of the log when there is none (auto_offset_reset='latest', line 76).
StartOffset(committed_offset) ==
    IF committed_offset = <<>> THEN log_end + 1 ELSE committed_offset[1]

\* The worker is killed, whatever it is doing, and started again.
WorkerCrash ==
    /\ stops < MaxStops
    /\ stops' = stops + 1
    /\ interrupted' = IF handling # 0 THEN interrupted \cup {handling} ELSE interrupted
    /\ handling' = 0
    /\ next_offset' = StartOffset(group_offset)
    /\ UNCHANGED <<log_end, group_offset, attempts, delivered>>
    /\ UNCHANGED <<auditVars, featureVars, policyVars, decisionVars, ingestVars, ensembleVars,
                 scoreVars,
                 signalVars, psiVars, monitorVars>>

\* The service is shut down and started again.  shutdown_event (lines
\* 344-354) closes the consumer from the server's thread, and closing an
\* auto-committing consumer commits its position; the consumer thread is a
\* daemon thread (line 396) and ends with the process, whatever it is doing.
WorkerShutdown ==
    /\ stops < MaxStops
    /\ stops' = stops + 1
    /\ group_offset' = <<next_offset>>
    /\ interrupted' = IF handling # 0 THEN interrupted \cup {handling} ELSE interrupted
    /\ handling' = 0
    /\ next_offset' = StartOffset(group_offset')
    /\ UNCHANGED <<log_end, attempts, delivered>>
    /\ UNCHANGED <<auditVars, featureVars, policyVars, decisionVars, ingestVars, ensembleVars,
                 scoreVars,
                 signalVars, psiVars, monitorVars>>

ConsumerNext ==
    \/ Produce
    \/ TakeMessage
    \/ FinishMessage
    \/ AutoCommitPosition
    \/ WorkerCrash
    \/ WorkerShutdown


AuditInit ==
    /\ objects = <<>>
    /\ audit_events = <<>>
    /\ utc_time = 0
    /\ next_uuid = 0
    /\ audit_responses = {}
    /\ verify_response = [event_id |-> None, path |-> NoPath, integrity_status |-> None]
    /\ tampered = {}

AuditNext ==
    \/ log_event
    \/ log_decision
    \/ log_case_event
    \/ verify_audit_integrity
    \/ Tick
    \/ Tamper

\* Every component starts in its initial state.
(***************************************************************************)
(* model-monitor-svc/app/metrics.py: psi (specification SpecPsi).          *)
(* Observations are integers and every pair of lists spans a range of 0, 5 *)
(* or 10, so that the bin edges mn + i*w are exact in floating point and   *)
(* the comparisons below decide as the code's do.  Proportions are in      *)
(* millionths, logarithms in ten-thousandths, psi in ten-millionths.       *)
(***************************************************************************)
bins == 10
MaxRun == 4

Max2(a, b) == IF a >= b THEN a ELSE b

SeqMin(list) == CHOOSE v \in { list[j] : j \in DOMAIN list } :
                    \A j \in DOMAIN list : v <= list[j]
SeqMax(list) == CHOOSE v \in { list[j] : j \in DOMAIN list } :
                    \A j \in DOMAIN list : v >= list[j]

\* Lines 13-16: bin i is lo <= v < hi with lo = mn + i*w, hi = mn + (i+1)*w
\* and w = (mx - mn)/bins; here with both sides multiplied by bins.
InBin(v, mn, mx, i) ==
    /\ bins * mn + i * (mx - mn) <= bins * v
    /\ bins * v < bins * mn + (i + 1) * (mx - mn)

\* sum(1 for v in list if lo <= v < hi), lines 16-17.
BinCount(list, mn, mx, i) ==
    Cardinality({ j \in DOMAIN list : InBin(list[j], mn, mx, i) })

\* max(1e-6, count/len(list)), lines 16-17, in millionths.
Proportion(count, len) == Max2(1, (count * 1000000) \div len)

\* math.log of a proportion (a multiple of 1/20, or the floor 1e-6), to four
\* decimals.
LogTable ==
    <<-29957, -23026, -18971, -16094, -13863, -12040, -10498, -9163, -7985, -6931,
      -5978, -5108, -4308, -3567, -2877, -2231, -1625, -1054, -513, 0>>
log(p) == IF p = 1 THEN -138155 ELSE LogTable[p \div 50000]

\* The same with the ratio inverted.
psi_term_inverted(rp, cp) ==
    LET d == rp - cp
        l == log(cp) - log(rp)
    IN  (d \div 1000) * l + ((d % 1000) * l) \div 1000

\* Line 18: (rp - cp) * log(rp/cp); cp is never 0 after line 17.
psi_term(rp, cp) ==
    LET d == rp - cp
        l == log(rp) - log(cp)
    IN  (d \div 1000) * l + ((d % 1000) * l) \div 1000

RECURSIVE SumTo(_, _)
SumTo(f, n) == IF n < 0 THEN 0 ELSE f[n] + SumTo(f, n - 1)

\* Lines 9-11: psi returns 0.0 before any binning.
psi_unbinned(ref, cur) ==
    \/ Len(ref) < bins
    \/ Len(cur) < bins
    \/ Max2(SeqMax(ref), SeqMax(cur)) = Min2(SeqMin(ref), SeqMin(cur))

\* psi, lines 8-19.
psi(ref, cur) ==
    IF psi_unbinned(ref, cur) THEN 0
    ELSE LET mn == Min2(SeqMin(ref), SeqMin(cur))
             mx == Max2(SeqMax(ref), SeqMax(cur))
             term == [i \in 0..(bins - 1) |->
                         psi_term(Proportion(BinCount(ref, mn, mx, i), Len(ref)),
                                  Proportion(BinCount(cur, mn, mx, i), Len(cur)))]
         IN  SumTo(term, bins - 1)

\* The counts of lines 16 and 17 for each bin (no bin is filled when psi
\* returns early).
psi_counts(list, ref, cur) ==
    IF psi_unbinned(ref, cur) THEN [i \in 0..(bins - 1) |-> 0]
    ELSE [i \in 0..(bins - 1) |->
             BinCount(list, Min2(SeqMin(ref), SeqMin(cur)),
                      Max2(SeqMax(ref), SeqMax(cur)), i)]

\* Observation lists: a run of zeros, then a ramp up to top.
Run(a, top) == [j \in 1..bins |-> IF j <= a THEN 0 ELSE (j * top) \div bins]

PsiLists ==
    { Run(a, top) : a \in 1..MaxRun, top \in {5, 10} }
    \cup { Run(a, top) \o Run(a, top) : a \in 1..MaxRun, top \in {5, 10} }
    \cup { Run(bins, 10), SubSeq(Run(1, 10), 1, bins - 1) }

NoPsiCall ==
    [picked |-> FALSE, called |-> FALSE, ref |-> <<>>, cur |-> <<>>, value |-> 0,
     ref_counts |-> [i \in 0..(bins - 1) |-> 0], cur_counts |-> [i \in 0..(bins - 1) |-> 0]]

PsiInit == psi_call = NoPsiCall

\* The caller's two lists.
PickLists ==
    /\ \E ref \in PsiLists, cur \in PsiLists :
          psi_call' = [NoPsiCall EXCEPT !.picked = TRUE, !.ref = ref, !.cur = cur]
    /\ UNCHANGED <<auditVars, featureVars, policyVars, decisionVars, ingestVars, ensembleVars,
                   scoreVars, consumerVars, signalVars, monitorVars>>

\* The call psi(ref, cur) on them.
Psi ==
    /\ psi_call.picked
    /\ ~psi_call.called
    /\ psi_call' = [psi_call EXCEPT
                       !.called = TRUE,
                       !.value = psi(psi_call.ref, psi_call.cur),
                       !.ref_counts = psi_counts(psi_call.ref, psi_call.ref, psi_call.cur),
                       !.cur_counts = psi_counts(psi_call.cur, psi_call.ref, psi_call.cur)]
    /\ UNCHANGED <<auditVars, featureVars, policyVars, decisionVars, ingestVars, ensembleVars,
                   scoreVars, consumerVars, signalVars, monitorVars>>

PsiNext ==
    \/ PickLists
    \/ Psi

(***************************************************************************)
(* model-monitor-svc/app/store.py and ingest_score of app/main.py          *)
(* (specification SpecMonitor).  The n-th payload carries the number n as  *)
(* its calibrated score and as the value of each feature it has, so that   *)
(* a buffer's content tells which payloads it holds and in which order.    *)
(***************************************************************************)
maxlen == 10000
MaxOverflow == 2
MaxBare == 1

TrackedFeatures == <<"velocity_1h", "ip_risk", "merchant_risk">>

\* The feature sets a payload may carry: all three, none, the first only
\* (or: the second one's value is not a number, and float() raises after the
\* first was pushed).
PayloadFeatures == { {"velocity_1h", "ip_risk", "merchant_risk"}, {}, {"velocity_1h"} }

\* deque(maxlen=10000).append with the newest observation refused when full.
deque_append_keep_oldest(dq, x) ==
    IF Len(dq) = maxlen THEN dq ELSE Append(dq, x)

\* deque(maxlen=10000).append, store.py lines 6 and 11-12: a full deque drops
\* its leftmost element.
deque_append(dq, x) ==
    IF Len(dq) = maxlen THEN Append(Tail(dq), x) ELSE Append(dq, x)

\* push_feature, store.py lines 9-12, on the dictionary F.
push_feature(F, name, value) ==
    [k \in DOMAIN F \cup {name} |->
        IF k = name THEN deque_append(IF name \in DOMAIN F THEN F[name] ELSE <<>>, value)
        ELSE F[k]]

\* Lines 27-30 of ingest_score: the tracked features of the payload, pushed
\* in the order of the tuple.
RECURSIVE push_features(_, _, _, _)
push_features(F, feats, value, i) ==
    IF i > Len(TrackedFeatures) THEN F
    ELSE push_features(IF TrackedFeatures[i] \in feats
                       THEN push_feature(F, TrackedFeatures[i], value) ELSE F,
                       feats, value, i + 1)

AllTracked == { TrackedFeatures[i] : i \in DOMAIN TrackedFeatures }

MonitorInit ==
    /\ SCORES = <<>>
    /\ FEATURES = <<>>
    /\ score_history = <<>>
    /\ feature_history = [k \in AllTracked |-> <<>>]
    /\ bare = 0

\* Lines 22-30 of ingest_score on the buffers b, for the payload that
\* arrives next and carries the features feats.
after_payload(b, feats) ==
    LET arrival == Len(b.score_history) + 1
    IN  [SCORES |-> deque_append(b.SCORES, arrival),
         FEATURES |-> push_features(b.FEATURES, feats, arrival, 1),
         score_history |-> Append(b.score_history, arrival),
         feature_history |->
             [k \in DOMAIN b.feature_history |->
                 IF k \in feats THEN Append(b.feature_history[k], arrival)
                 ELSE b.feature_history[k]]]

\* n payloads one after the other, each with all the tracked features (the
\* first half of them, then the rest).
RECURSIVE after_payloads(_, _)
after_payloads(b, n) ==
    IF n = 0 THEN b
    ELSE IF n = 1 THEN after_payload(b, AllTracked)
    ELSE CHOOSE r \in { after_payloads(half, n - n \div 2) :
                             half \in { after_payloads(b, n \div 2) } } : TRUE

\* POST /ingest/score, lines 18-41.  A payload whose calibrated value is not
\* a number fails at line 22 and leaves the buffers alone.  Payloads that
\* lack a feature are taken from the ones that arrive once the score buffer
\* is nearly full.
ingest_score ==
    \E feats \in PayloadFeatures, numeric \in BOOLEAN :
        LET b == after_payload([SCORES |-> SCORES, FEATURES |-> FEATURES,
                                score_history |-> score_history,
                                feature_history |-> feature_history], feats)
        IN  /\ Len(score_history) < maxlen + MaxOverflow
            /\ feats # AllTracked =>
                   /\ bare < MaxBare
                   /\ Len(score_history) >= maxlen - 1
            /\ IF ~numeric
               THEN UNCHANGED monitorVars
               ELSE /\ SCORES' = b.SCORES
                    /\ FEATURES' = b.FEATURES
                    /\ score_history' = b.score_history
                    /\ feature_history' = b.feature_history
                    /\ bare' = IF feats = AllTracked THEN bare ELSE bare + 1
            /\ UNCHANGED <<auditVars, featureVars, policyVars, decisionVars, ingestVars,
                           ensembleVars, scoreVars, consumerVars, signalVars, psiVars>>

\* A client that posts maxlen - 2 complete payloads back to back: that many
\* runs of ingest_score, taken as one step.
IngestBurst ==
    LET b == after_payloads([SCORES |-> SCORES, FEATURES |-> FEATURES,
                             score_history |-> score_history,
                             feature_history |-> feature_history], maxlen - 2)
    IN  /\ Len(score_history) + maxlen - 2 <= maxlen + MaxOverflow
        /\ SCORES' = b.SCORES
        /\ FEATURES' = b.FEATURES
        /\ score_history' = b.score_history
        /\ feature_history' = b.feature_history
        /\ UNCHANGED bare
        /\ UNCHANGED <<auditVars, featureVars, policyVars, decisionVars, ingestVars,
                       ensembleVars, scoreVars, consumerVars, signalVars, psiVars>>

MonitorNext ==
    \/ ingest_score
    \/ IngestBurst

Init ==
    /\ AuditInit /\ FeatureInit /\ PolicyInit /\ DecisionInit /\ IngestInit
    /\ EnsembleInit /\ ScoreInit /\ ConsumerInit
    /\ SignalInit /\ PsiInit /\ MonitorInit

(***************************************************************************)
(* Claims on audit-svc (specification SpecAudit).                          *)
(***************************************************************************)
\* C1: for a bundle written and indexed and not changed afterwards,
\* verification answers 'verified': the hash recorded at write time equals
\* the hash recomputed over the sorted-key serialisation of the stored object.
C1_AuditRoundTrip ==
    (/\ verify_response.integrity_status \in {"verified", "compromised"}
     /\ verify_response.path \notin tampered)
    => verify_response.integrity_status = "verified"

\* C2: logging the same payload for the same event identifier and the same
\* stage twice yields the same evidence hash both times.
C2_ReplaySameHash ==
    \A r1, r2 \in audit_responses :
        (/\ r1.endpoint = r2.endpoint
         /\ r1.event_id = r2.event_id
         /\ r1.payload = r2.payload)
        => r1.hash = r2.hash

\* C19: verify_audit_integrity answers 'no_evidence' when the event
\* identifier has no audit row and when the row's evidence object cannot be
\* read; it never answers such a request with an error.
C19_VerificationOutcomes ==
    /\ verify_response.integrity_status # "http_404"
    /\ (verify_response.path # NoPath /\ verify_response.path \notin DOMAIN objects)
         => verify_response.integrity_status = "no_evidence"

\* C20: every audit row's evidence_path is the key under which the bundle
\* with the row's hash was stored, a change of calendar date between the
\* object write and the row insert included.
C20_RowsPointAtObjects ==
    \A i \in 1..Len(audit_events) :
        \E r \in audit_responses :
            /\ r.hash = audit_events[i].evidence_hash
            /\ r.key = audit_events[i].evidence_path

\* C21: no operation of the audit service changes or removes an evidence
\* object or an audit row that exists; a log operation that succeeds adds
\* exactly one object under a new key and at most one row.  (Tamper is the
\* environment, not the service.)
C21_WriteOnceAppendOnly ==
    [][tampered' = tampered =>
         /\ \A k \in DOMAIN objects :
               k \in DOMAIN objects' /\ objects'[k] = objects[k]
         /\ Len(audit_events') \in {Len(audit_events), Len(audit_events) + 1}
         /\ \A i \in 1..Len(audit_events) : audit_events'[i] = audit_events[i]
         /\ (audit_responses' # audit_responses =>
               Cardinality(DOMAIN objects' \ DOMAIN objects) = 1)
         /\ (audit_responses' = audit_responses => DOMAIN objects' = DOMAIN objects)]_vars

\* Two bundles are stored and indexed, and a verification has run.
C21_Witness ==
    /\ Cardinality(DOMAIN objects) = 2
    /\ Len(audit_events) = 2
    /\ verify_response.integrity_status # None

(***************************************************************************)
(* Claims on score-svc (specifications SpecEnsemble and SpecScore).        *)
(***************************************************************************)
ScoreNames == {"xgb", "nn", "rules", "ensemble", "calibrated"}

\* C22: whatever the feature input and the configured weight triple, each of
\* the five scores the scorer returns lies in [0, 1].
C22_ScoreRange ==
    score_response.answered =>
        \A k \in ScoreNames :
            score_response.scores[k] >= 0 /\ score_response.scores[k] <= 10000

\* C23: the scorer never scores with weights whose sum is not 1.0: a setting
\* that does not sum to 1.0 is rejected, not used.
C23_WeightsSumToOne ==
    score_response.answered =>
        score_response.w[1] + score_response.w[2] + score_response.w[3] = 100

C25_ModelAbsentDegraded ==
    (score_output.event_id # None
     /\ (score_output.models.xgb = None \/ score_output.models.nn = None)) =>
        /\ score_output.built
        /\ (score_output.models.xgb = None => score_output.scores.xgb = 1000)
        /\ (score_output.models.nn = None => score_output.scores.nn = 1000)
        /\ score_output.model_version = "degraded"

(***************************************************************************)
(* Further claims on decision-svc (specification SpecDecision).            *)
(***************************************************************************)
\* C26: every message process_score_output publishes to alerts.decisions.v1
\* is keyed by the entity identifier of the event it decides.
C26_DecisionKeyIsEntity ==
    \A i \in 1..Len(decisions_topic) :
        decisions_topic[i].key = decisions_topic[i].value.event.entity_id

\* C29: each decision published to alerts.decisions.v1 comes with a write of
\* that decision to the auditor (and none is published when the evidence
\* object could not be written); in particular there are at least as many
\* evidence objects as decisions published.
C29_DecisionsAudited ==
    Cardinality(DOMAIN objects) >= Len(decisions_topic)

\* C30: when the event's velocity exceeds 3 times the entity's 1-hour
\* average or 2 times its 24-hour average and the rule groups chose allow
\* (and no watchlist matched), the decision has action hold, reason
\* velocity_anomaly and velocity_anomaly = true.
C30_VelocityAnomalyOverride ==
    \A d \in Decisions :
        (/\ check_velocity_anomaly(d.event.entity_id, d.event.velocity_1h,
                                   d.event.velocity_24h, TRUE)
         /\ d.rule_action = "allow"
         /\ d.watchlist_hits = <<>>) =>
            /\ d.action = "hold"
            /\ "velocity_anomaly" \in Labels(d.reasons)
            /\ d.velocity_anomaly

\* C36: decisions do not leak into each other through the policy: the
\* reasons of a decision hold a watchlist label only if that watchlist
\* matched this very event, and 'graph_anomaly' only if the graph check
\* fired for it.
C36_NoLeakThroughPolicy ==
    \A d \in Decisions :
        /\ \A label \in {"entity_watchlist", "ip_watchlist", "device_watchlist"} :
              label \in Labels(d.reasons) => label \in Labels(d.watchlist_hits)
        /\ "graph_anomaly" \in Labels(d.reasons) => d.graph_anomaly

\* C37: a policy is always available: whatever the index store does,
\* current_policy is a policy once load_decision_policy has returned.
C37_PolicyAlwaysAvailable ==
    LoadedPolicy(current_policy, index_store) # NoPolicy

(***************************************************************************)
(* Claims on the consumer loop (specification SpecConsumer).               *)
(***************************************************************************)
\* C28: the offset of a message is committed only after the processing
\* attempt for it has finished, and a message that was being processed when
\* the worker stopped is delivered again after the restart: once the
\* consumer has caught up with the log, it has been processed.
C28_AckAfterProcessing ==
    /\ (group_offset # <<>> =>
          \A o \in delivered : o < group_offset[1] => attempts[o] >= 1)
    /\ ((handling = 0 /\ next_offset > log_end) =>
          \A o \in interrupted : attempts[o] >= 1)

\* C35: of two answers of POST /score computed with the same weights (here:
\* the default ones), the one with the smaller ensemble score has the
\* strictly smaller calibrated score.
C35_CalibrationStrictlyMonotone ==
    [][(/\ score_response.answered
        /\ score_response'.answered
        /\ score_response.w = Ensemble(<<"0.5", "0.4", "0.1">>).w
        /\ score_response'.w = score_response.w
        /\ score_response.scores.ensemble < score_response'.scores.ensemble)
       => score_response.scores.calibrated < score_response'.scores.calibrated]_vars

(***************************************************************************)
(* A further claim on audit-svc (specification SpecAudit).                 *)
(***************************************************************************)
\* C38: audit success means indexed: for every success response of
\* POST /audit/event, /audit/decision or /audit/case there is an audit row
\* carrying the hash the response names.
C38_AuditSuccessMeansIndexed ==
    \A r \in audit_responses :
        \E i \in 1..Len(audit_events) : audit_events[i].evidence_hash = r.hash

(***************************************************************************)
(* Claims on the signal checks (specification SpecSignals).                *)
(***************************************************************************)
\* C31: every call of check_velocity_anomaly that reaches Redis, flagged or
\* not, leaves both stored averages at 0.1 * current + 0.9 * previous (or at
\* the current value when there was no key), and its flag is computed from
\* the averages as they were before.
C31_MovingAverageEveryCheck ==
    (velocity_call.called /\ velocity_call.redis_ok) =>
        /\ velocity_patterns[velocity_call.entity_id] =
               [h1 |-> moving_average(velocity_call.before.h1, velocity_call.velocity_1h),
                h24 |-> moving_average(velocity_call.before.h24, velocity_call.velocity_24h)]
        /\ velocity_call.anomaly =
               (\/ /\ velocity_call.before.h1 # <<>>
                   /\ velocity_call.velocity_1h * VelocityScale > velocity_call.before.h1[1] * 3
                \/ /\ velocity_call.before.h24 # <<>>
                   /\ velocity_call.velocity_24h * VelocityScale
                          > velocity_call.before.h24[1] * 2)

\* C32: check_graph_anomaly answers true exactly when the device's set of
\* accounts, the calling one included, has more than 5 members, and false
\* when no fingerprint is given.
C32_GraphAnomalyThreshold ==
    (graph_call.called /\ graph_call.redis_ok) =>
        graph_call.anomaly =
            (/\ graph_call.device_fingerprint # None
             /\ Cardinality(graph_call.before \cup {graph_call.entity_id}) > 5)

(***************************************************************************)
(* Claims on psi (specification SpecPsi).                                  *)
(***************************************************************************)
\* C33: psi(A, B) is never negative, and psi(A, A) is 0.
C33_PsiIsDivergence ==
    psi_call.called =>
        /\ psi_call.value >= 0
        /\ psi_call.ref = psi_call.cur => psi_call.value = 0

\* Reached: psi was called on two different binned lists and on twice the
\* same one.
C33_Witness ==
    /\ psi_call.called
    /\ psi_call.ref # psi_call.cur
    /\ ~psi_unbinned(psi_call.ref, psi_call.cur)
    /\ psi_call.value > 0

\* C39: when the joint minimum and maximum differ (and psi bins at all),
\* the per-bin counts of each half add up to the size of that half.
C39_BinsCoverEveryObservation ==
    (psi_call.called /\ ~psi_unbinned(psi_call.ref, psi_call.cur)) =>
        /\ SumTo(psi_call.ref_counts, bins - 1) = Len(psi_call.ref)
        /\ SumTo(psi_call.cur_counts, bins - 1) = Len(psi_call.cur)

(***************************************************************************)
(* Claims on the monitor's buffers (specification SpecMonitor).            *)
(***************************************************************************)
\* dq holds the last min(maxlen, Len(history)) observations of history, in
\* the same order.
MostRecent(dq, history) ==
    /\ Len(dq) = Min2(maxlen, Len(history))
    /\ dq = SubSeq(history, Len(history) - Len(dq) + 1, Len(history))

\* C34: the score buffer and every feature buffer hold at most 10000
\* observations, and exactly the most recent ones in arrival order.
C34_BoundedRollingBuffers ==
    /\ Len(SCORES) <= maxlen
    /\ MostRecent(SCORES, score_history)
    /\ \A k \in DOMAIN FEATURES :
          /\ Len(FEATURES[k]) <= maxlen
          /\ MostRecent(FEATURES[k], feature_history[k])
    /\ \A k \in DOMAIN feature_history :
          k \notin DOMAIN FEATURES => feature_history[k] = <<>>

\* Reached: a full score buffer and a full feature buffer have each dropped
\* their oldest observation, and some payload lacked a feature.
C34_Witness ==
    /\ Len(score_history) > maxlen
    /\ Len(SCORES) = maxlen
    /\ "velocity_1h" \in DOMAIN FEATURES
    /\ Len(feature_history["velocity_1h"]) > maxlen
    /\ Len(FEATURES["velocity_1h"]) = maxlen
    /\ bare > 0

SpecAudit == Init /\ [][AuditNext]_vars

SpecFeature == Init /\ [][FeatureNext]_vars

SpecPolicy == Init /\ [][PolicyNext]_vars

SpecDecision == Init /\ [][DecisionNext]_vars

SpecIngest == Init /\ [][IngestNext]_vars

SpecEnsemble == Init /\ [][EnsembleNext]_vars

SpecScore == Init /\ [][ScoreNext]_vars

SpecConsumer == Init /\ [][ConsumerNext]_vars

SpecSignals == Init /\ [][SignalNext]_vars

SpecPsi == Init /\ [][PsiNext]_vars

SpecMonitor == Init /\ [][MonitorNext]_vars

====
